---- MODULE Spec2Model ----
(***************************************************************************)
(* A model of the TOON codec: the line scanner, the array-header parser,   *)
(* the primitive tokenizer, the cursor-driven decode engine and its        *)
(* strict-mode validation, the event builder, path expansion, the encode   *)
(* engine with key folding, and the incremental AsyncDecodeStream.         *)
(*                                                                         *)
(* Text is a sequence of one-character strings.  Positions are 1-based     *)
(* (Rust's byte offsets plus one) and 0 stands for Option::None.           *)
(***************************************************************************)
EXTENDS Bags, FiniteSets, Integers, Sequences, TLC

VARIABLES
    pc,        \* which step of the run comes next
    doc,       \* the run's input: a JsonValue to encode, or a TOON document
    cfg,       \* the options of the run
    toon,      \* the TOON lines: encode's output, decode's input
    scan,      \* the result of parse_lines_sync on toon
    sync,      \* the result of decode_stream_sync on toon
    decoded,   \* the result of try_decode_from_lines on toon
    recoded,   \* encode_lines of the decoded value
    emitted,   \* the events of encode_stream_events
    stream,    \* the AsyncDecodeStream
    yielded,   \* what poll_next has returned so far, in order
    replaced,  \* the value apply_replacer returned
    calls,     \* the calls apply_replacer made to the replacer, in order
    built      \* the result of build_node_from_events on an event sequence

vars == <<pc, doc, cfg, toon, scan, sync, decoded, recoded, emitted, stream,
          yielded, replaced, calls, built>>

-----------------------------------------------------------------------------
(* shared/constants.rs *)

LIST_ITEM_MARKER == <<"-">>
LIST_ITEM_PREFIX == <<"-", " ">>
COMMA == ","
COLON == ":"
SPACE == " "
PIPE == "|"
DOT == "."
OPEN_BRACKET == "["
CLOSE_BRACKET == "]"
OPEN_BRACE == "{"
CLOSE_BRACE == "}"
NULL_LITERAL == <<"n", "u", "l", "l">>
TRUE_LITERAL == <<"t", "r", "u", "e">>
FALSE_LITERAL == <<"f", "a", "l", "s", "e">>
BACKSLASH == "\\"
DOUBLE_QUOTE == "\""
NEWLINE == "\n"
CARRIAGE_RETURN == "\r"
TAB == "\t"
DEFAULT_DELIMITER == COMMA

-----------------------------------------------------------------------------
(* The string primitives of the Rust standard library the codec relies on. *)

\* `let v = ...;` of the code: F is applied to the value, which is computed
\* at most once and only if F uses it.
Let(v, F(_)) == F(v)

Let2(v, w, F(_, _)) == F(v, w)

\* What a call of the library returns, F(0) for an F that ignores its
\* argument.  The bag has one element, so BagOfAll applies F once and the
\* result is the one element of the bag it builds; TLC evaluates the call
\* as a whole and keeps no coverage statistics of its parts.
Result(F(_)) == CHOOSE r \in DOMAIN BagOfAll(F, SetToBag({0})) : TRUE

Digits == {"0", "1", "2", "3", "4", "5", "6", "7", "8", "9"}

Lower == {"a", "b", "c", "d", "e", "f", "g", "h", "i", "j", "k", "l", "m",
          "n", "o", "p", "q", "r", "s", "t", "u", "v", "w", "x", "y", "z"}

Upper == {"A", "B", "C", "D", "E", "F", "G", "H", "I", "J", "K", "L", "M",
          "N", "O", "P", "Q", "R", "S", "T", "U", "V", "W", "X", "Y", "Z"}

is_ascii_digit(c) == c \in Digits

is_ascii_alphabetic(c) == c \in Lower \cup Upper

is_ascii_alphanumeric(c) == is_ascii_alphabetic(c) \/ is_ascii_digit(c)

IsWhitespace(c) == c \in {SPACE, TAB, NEWLINE, CARRIAGE_RETURN}

DigitValue(c) ==
    CASE c = "0" -> 0 [] c = "1" -> 1 [] c = "2" -> 2 [] c = "3" -> 3
      [] c = "4" -> 4 [] c = "5" -> 5 [] c = "6" -> 6 [] c = "7" -> 7
      [] c = "8" -> 8 [] c = "9" -> 9

DigitChar(d) ==
    CASE d = 0 -> "0" [] d = 1 -> "1" [] d = 2 -> "2" [] d = 3 -> "3"
      [] d = 4 -> "4" [] d = 5 -> "5" [] d = 6 -> "6" [] d = 7 -> "7"
      [] d = 8 -> "8" [] d = 9 -> "9"

\* s[a..b] with 1-based inclusive bounds; empty when a > b.
Slice(s, a, b) == SubSeq(s, a, b)

\* s[a..]
From(s, a) == SubSeq(s, a, Len(s))

RECURSIVE TrimStart(_)
TrimStart(s) ==
    IF Len(s) > 0 /\ IsWhitespace(s[1]) THEN TrimStart(Tail(s)) ELSE s

RECURSIVE TrimEnd(_)
TrimEnd(s) ==
    IF Len(s) > 0 /\ IsWhitespace(s[Len(s)])
    THEN TrimEnd(SubSeq(s, 1, Len(s) - 1))
    ELSE s

Trim(s) == TrimEnd(TrimStart(s))

StartsWith(s, p) == Len(s) >= Len(p) /\ SubSeq(s, 1, Len(p)) = p

EndsWithChar(s, c) == Len(s) > 0 /\ s[Len(s)] = c

Contains(s, c) == \E i \in 1..Len(s) : s[i] = c

\* str::find from position `from`: the first position of c, 0 when absent.
RECURSIVE Find(_, _, _)
Find(s, c, from) ==
    IF from > Len(s) THEN 0
    ELSE IF s[from] = c THEN from
    ELSE Find(s, c, from + 1)

\* str::split(c)
RECURSIVE Split(_, _)
Split(s, c) ==
    Let(Find(s, c, 1), LAMBDA i :
        IF i = 0 THEN <<s>>
        ELSE <<SubSeq(s, 1, i - 1)>> \o Split(From(s, i + 1), c))

\* " ".repeat(n)
RECURSIVE Spaces(_)
Spaces(n) == IF n <= 0 THEN <<>> ELSE <<SPACE>> \o Spaces(n - 1)

RECURSIVE Pow10(_)
Pow10(n) == IF n <= 0 THEN 1 ELSE 10 * Pow10(n - 1)

\* The decimal digits of a natural number.
RECURSIVE NatDigits(_)
NatDigits(n) ==
    IF n < 10 THEN <<DigitChar(n)>>
    ELSE NatDigits(n \div 10) \o <<DigitChar(n % 10)>>

\* The value of a run of decimal digits.
RECURSIVE DigitsValue(_)
DigitsValue(s) ==
    IF Len(s) = 0 THEN 0
    ELSE 10 * DigitsValue(SubSeq(s, 1, Len(s) - 1)) + DigitValue(s[Len(s)])

\* The end (exclusive) of the run of digits of s that starts at position i.
RECURSIVE SkipDigits(_, _)
SkipDigits(s, i) ==
    IF i <= Len(s) /\ is_ascii_digit(s[i]) THEN SkipDigits(s, i + 1) ELSE i

\* Option<T>
None == [some |-> FALSE]

Some(v) == [some |-> TRUE, v |-> v]

-----------------------------------------------------------------------------
(* lib.rs: JsonPrimitive, JsonValue, JsonStreamEvent.  A finite number is   *)
(* the decimal (-1)^neg * mag / 10^k in lowest terms (k = 0 or 10 does not  *)
(* divide mag); NonFinite stands for NaN and the infinities.                *)

StrP(s) == [t |-> "str", s |-> s]

NumP(neg, mag, k) == [t |-> "num", neg |-> neg, mag |-> mag, k |-> k]

BoolP(b) == [t |-> "bool", b |-> b]

NullP == [t |-> "null"]

NonFinite == [t |-> "nonfinite"]

Arr(items) == [t |-> "arr", items |-> items]

Obj(entries) == [t |-> "obj", entries |-> entries]

IsPrimitive(v) == v.t \in {"str", "num", "bool", "null", "nonfinite"}

StartObject == [e |-> "StartObject"]

EndObject == [e |-> "EndObject"]

StartArray(n) == [e |-> "StartArray", length |-> n]

EndArray == [e |-> "EndArray"]

Key(k, q) == [e |-> "Key", key |-> k, was_quoted |-> q]

Primitive(p) == [e |-> "Primitive", value |-> p]

\* error.rs: ToonError::message; line is the number the message starts with
\* ("Line N: ..."), 0 when the message names no line.
Err(msg, line) == [ok |-> FALSE, err |-> [msg |-> msg, line |-> line]]

Ok(v) == [ok |-> TRUE, v |-> v]

-----------------------------------------------------------------------------
(* shared/literal_utils.rs *)

is_boolean_or_null_literal(value) ==
    value \in {TRUE_LITERAL, FALSE_LITERAL, NULL_LITERAL}

\* The optional fraction and exponent shared by both numeric scanners, read
\* from position i: the position after them, or 0 when one is malformed.
ScanFractionExponent(s, i) ==
    Let(IF i <= Len(s) /\ s[i] = "." THEN SkipDigits(s, i + 1) ELSE i,
        LAMBDA fracEnd :
        LET hasDot == i <= Len(s) /\ s[i] = "."
            hasExp == fracEnd <= Len(s) /\ s[fracEnd] \in {"e", "E"}
            signPos == fracEnd + 1
            expStart == IF signPos <= Len(s) /\ s[signPos] \in {"+", "-"}
                        THEN signPos + 1 ELSE signPos
        IN  IF hasDot /\ fracEnd = i + 1 THEN 0
            ELSE IF ~hasExp THEN fracEnd
            ELSE Let(SkipDigits(s, expStart), LAMBDA expEnd :
                     IF expEnd = expStart THEN 0 ELSE expEnd))

is_numeric_like(value) ==
    Let(Trim(value), LAMBDA s :
        LET start == IF Len(s) > 0 /\ s[1] = "-" THEN 2 ELSE 1
        IN  IF Len(s) = 0 \/ start > Len(s) THEN FALSE
            ELSE Let(SkipDigits(s, start), LAMBDA intEnd :
                     IF intEnd - start = 0 THEN FALSE
                     ELSE IF intEnd - start > 1 /\ s[start] = "0" THEN TRUE
                     ELSE ScanFractionExponent(s, intEnd) = Len(s) + 1))

\* The numeric grammar of is_numeric_literal (without the f64 parse).
NumericGrammar(s) ==
    LET start == IF Len(s) > 0 /\ s[1] = "-" THEN 2 ELSE 1
    IN  IF Len(s) = 0 \/ start > Len(s) THEN FALSE
        ELSE IF ~is_ascii_digit(s[start]) THEN FALSE
        ELSE Let(IF s[start] = "0" THEN start + 1 ELSE SkipDigits(s, start),
                 LAMBDA intEnd :
                 IF s[start] = "0" /\ intEnd <= Len(s) /\ is_ascii_digit(s[intEnd])
                 THEN FALSE
                 ELSE ScanFractionExponent(s, intEnd) = Len(s) + 1)

\* Drops the trailing zeros of the fraction: mag / 10^k in lowest terms.
RECURSIVE Reduce(_, _, _)
Reduce(neg, mag, k) ==
    IF k > 0 /\ mag % 10 = 0 THEN Reduce(neg, mag \div 10, k - 1)
    ELSE NumP(neg, mag, k)

\* str::parse::<f64> of a token of the numeric grammar, as an exact decimal.
ParseF64(s) ==
    LET neg == s[1] = "-"
        start == IF s[1] = "-" THEN 2 ELSE 1
    IN  Let(SkipDigits(s, start), LAMBDA intEnd :
        Let(IF intEnd <= Len(s) /\ s[intEnd] = "."
            THEN SkipDigits(s, intEnd + 1) ELSE intEnd, LAMBDA fracEnd :
        LET fracLen == IF fracEnd > intEnd THEN fracEnd - intEnd - 1 ELSE 0
            hasExp == fracEnd <= Len(s)
            signed == fracEnd + 1 <= Len(s) /\ s[fracEnd + 1] \in {"+", "-"}
            expNeg == fracEnd + 1 <= Len(s) /\ s[fracEnd + 1] = "-"
        IN  Let2(DigitsValue(Slice(s, start, intEnd - 1)) * Pow10(fracLen)
                     + DigitsValue(Slice(s, intEnd + 1, fracEnd - 1)),
                 IF hasExp
                 THEN DigitsValue(From(s, IF signed THEN fracEnd + 2
                                          ELSE fracEnd + 1))
                 ELSE 0,
                 LAMBDA mant, expAbs :
                 Let(fracLen - (IF hasExp /\ expNeg THEN 0 - expAbs ELSE expAbs),
                     LAMBDA k :
                     IF k >= 0 THEN Reduce(neg, mant, k)
                     ELSE NumP(neg, mant * Pow10(0 - k), 0)))))

is_numeric_literal(value) == NumericGrammar(Trim(value))

-----------------------------------------------------------------------------
(* shared/validation.rs *)

is_valid_unquoted_key(key) ==
    /\ Len(key) > 0
    /\ is_ascii_alphabetic(key[1]) \/ key[1] = "_"
    /\ \A i \in 2..Len(key) :
          is_ascii_alphanumeric(key[i]) \/ key[i] = "_" \/ key[i] = "."

is_identifier_segment(segment) ==
    /\ Len(segment) > 0
    /\ is_ascii_alphabetic(segment[1]) \/ segment[1] = "_"
    /\ \A i \in 2..Len(segment) :
          is_ascii_alphanumeric(segment[i]) \/ segment[i] = "_"

is_safe_unquoted(value, delimiter) ==
    /\ Len(value) > 0
    /\ Trim(value) = value
    /\ ~(is_boolean_or_null_literal(value) \/ is_numeric_like(value))
    /\ ~Contains(value, ":")
    /\ ~(Contains(value, "\"") \/ Contains(value, "\\"))
    /\ ~(Contains(value, "[") \/ Contains(value, "]")
          \/ Contains(value, "{") \/ Contains(value, "}"))
    /\ ~(Contains(value, "\n") \/ Contains(value, "\r") \/ Contains(value, "\t"))
    /\ ~Contains(value, delimiter)
    /\ ~StartsWith(value, LIST_ITEM_MARKER)

-----------------------------------------------------------------------------
(* shared/string_utils.rs *)

RECURSIVE escape_string(_)
escape_string(value) ==
    IF Len(value) = 0 THEN <<>>
    ELSE LET ch == Head(value)
             out == CASE ch = "\\" -> <<BACKSLASH, BACKSLASH>>
                      [] ch = "\"" -> <<BACKSLASH, DOUBLE_QUOTE>>
                      [] ch = "\n" -> <<BACKSLASH, "n">>
                      [] ch = "\r" -> <<BACKSLASH, "r">>
                      [] ch = "\t" -> <<BACKSLASH, "t">>
                      [] OTHER -> <<ch>>
         IN  out \o escape_string(Tail(value))

\* Ok(text), or the error of the first bad escape.
RECURSIVE unescape_string(_)
unescape_string(value) ==
    IF Len(value) = 0 THEN Ok(<<>>)
    ELSE Let2(IF Head(value) # BACKSLASH THEN Head(value)
              ELSE IF Len(value) = 1 THEN ""
              ELSE CASE value[2] = "n" -> NEWLINE
                     [] value[2] = "t" -> TAB
                     [] value[2] = "r" -> CARRIAGE_RETURN
                     [] value[2] = "\\" -> BACKSLASH
                     [] value[2] = "\"" -> DOUBLE_QUOTE
                     [] OTHER -> "",
              unescape_string(From(value, IF Head(value) = BACKSLASH THEN 3
                                          ELSE 2)),
              LAMBDA ch, rest :
              IF Head(value) = BACKSLASH /\ Len(value) = 1
              THEN Err("Invalid escape sequence: backslash at end of string", 0)
              ELSE IF ch = "" THEN Err("Invalid escape sequence", 0)
              ELSE IF rest.ok THEN Ok(<<ch>> \o rest.v)
              ELSE rest)

\* The scan of find_closing_quote from position i.
RECURSIVE find_closing_quote_from(_, _)
find_closing_quote_from(content, i) ==
    IF i > Len(content) THEN 0
    ELSE IF content[i] = BACKSLASH /\ i + 1 <= Len(content)
    THEN find_closing_quote_from(content, i + 2)
    ELSE IF content[i] = DOUBLE_QUOTE THEN i
    ELSE find_closing_quote_from(content, i + 1)

\* start is the position of the opening quote.
find_closing_quote(content, start) == find_closing_quote_from(content, start + 1)

RECURSIVE find_unquoted_char_from(_, _, _, _)
find_unquoted_char_from(content, target, i, in_quotes) ==
    IF i > Len(content) THEN 0
    ELSE IF in_quotes /\ content[i] = BACKSLASH /\ i + 1 <= Len(content)
    THEN find_unquoted_char_from(content, target, i + 2, in_quotes)
    ELSE IF content[i] = DOUBLE_QUOTE
    THEN find_unquoted_char_from(content, target, i + 1, ~in_quotes)
    ELSE IF content[i] = target /\ ~in_quotes THEN i
    ELSE find_unquoted_char_from(content, target, i + 1, in_quotes)

find_unquoted_char(content, target, start) ==
    find_unquoted_char_from(content, target, start, FALSE)

-----------------------------------------------------------------------------
(* decode/parser.rs *)

\* str::parse::<usize>: an optional "+" and at least one digit.
ParseUsize(s) ==
    Let(IF Len(s) > 0 /\ s[1] = "+" THEN Tail(s) ELSE s, LAMBDA body :
        IF Len(body) > 0 /\ \A i \in 1..Len(body) : is_ascii_digit(body[i])
        THEN Ok(DigitsValue(body))
        ELSE Err("Invalid array length", 0))

parse_bracket_segment(seg, default_delimiter) ==
    LET delimiter == IF EndsWithChar(seg, TAB) THEN TAB
                     ELSE IF EndsWithChar(seg, PIPE) THEN PIPE
                     ELSE default_delimiter
    IN  Let(ParseUsize(IF EndsWithChar(seg, TAB) \/ EndsWithChar(seg, PIPE)
                       THEN SubSeq(seg, 1, Len(seg) - 1)
                       ELSE seg), LAMBDA length :
            IF length.ok THEN Ok([length |-> length.v, delimiter |-> delimiter])
            ELSE length)

\* The loop of parse_delimited_values from position i on.
RECURSIVE parse_delimited_values_from(_, _, _, _, _, _)
parse_delimited_values_from(input, delimiter, i, buffer, in_quotes, values) ==
    IF i > Len(input)
    THEN IF Len(buffer) > 0 \/ Len(values) > 0
         THEN Append(values, Trim(buffer))
         ELSE values
    ELSE LET ch == input[i]
         IN  IF ch = BACKSLASH /\ in_quotes
             THEN IF i + 1 <= Len(input)
                  THEN parse_delimited_values_from(input, delimiter, i + 2,
                           buffer \o <<ch, input[i + 1]>>, in_quotes, values)
                  ELSE parse_delimited_values_from(input, delimiter, i + 1,
                           Append(buffer, ch), in_quotes, values)
             ELSE IF ch = DOUBLE_QUOTE
             THEN parse_delimited_values_from(input, delimiter, i + 1,
                      Append(buffer, ch), ~in_quotes, values)
             ELSE IF ch = delimiter /\ ~in_quotes
             THEN parse_delimited_values_from(input, delimiter, i + 1,
                      <<>>, in_quotes, Append(values, Trim(buffer)))
             ELSE parse_delimited_values_from(input, delimiter, i + 1,
                      Append(buffer, ch), in_quotes, values)

parse_delimited_values(input, delimiter) ==
    parse_delimited_values_from(input, delimiter, 1, <<>>, FALSE, <<>>)

parse_string_literal(token) ==
    Let(Trim(token), LAMBDA trimmed :
        IF ~StartsWith(trimmed, <<DOUBLE_QUOTE>>) THEN Ok(trimmed)
        ELSE Let(find_closing_quote(trimmed, 1), LAMBDA closing :
                 IF closing = 0
                 THEN Err("Unterminated string: missing closing quote", 0)
                 ELSE IF closing # Len(trimmed)
                 THEN Err("Unexpected characters after closing quote", 0)
                 ELSE unescape_string(Slice(trimmed, 2, closing - 1))))

parse_primitive_token(token) ==
    Let(Trim(token), LAMBDA trimmed :
        IF Len(trimmed) = 0 THEN Ok(StrP(<<>>))
        ELSE IF StartsWith(trimmed, <<DOUBLE_QUOTE>>)
        THEN Let(parse_string_literal(trimmed), LAMBDA literal :
                 IF literal.ok THEN Ok(StrP(literal.v)) ELSE literal)
        ELSE IF is_boolean_or_null_literal(trimmed)
        THEN Ok(IF trimmed = TRUE_LITERAL THEN BoolP(TRUE)
                ELSE IF trimmed = FALSE_LITERAL THEN BoolP(FALSE)
                ELSE NullP)
        ELSE IF is_numeric_literal(trimmed)
        THEN Let(ParseF64(trimmed), LAMBDA parsed :
                 Ok(IF parsed.mag = 0 THEN NumP(FALSE, 0, 0) ELSE parsed))
        ELSE Ok(StrP(trimmed)))

\* Ok(the results in order), or the first error of a sequence of results.
RECURSIVE Collect(_)
Collect(results) ==
    IF Len(results) = 0 THEN Ok(<<>>)
    ELSE IF ~Head(results).ok THEN Head(results)
    ELSE Let(Collect(Tail(results)), LAMBDA rest :
             IF rest.ok THEN Ok(<<Head(results).v>> \o rest.v) ELSE rest)

map_row_values_to_primitives(values) ==
    Collect([i \in 1..Len(values) |-> parse_primitive_token(values[i])])

parse_array_header_line(content, default_delimiter) ==
    Let(TrimStart(content), LAMBDA trimmed :
    Let(find_closing_quote(trimmed, 1), LAMBDA closing :
    LET quoted == StartsWith(trimmed, <<DOUBLE_QUOTE>>)
    IN  IF quoted /\ closing = 0
        THEN Err("Unterminated string: missing closing quote", 0)
        ELSE IF quoted /\ ~StartsWith(From(trimmed, closing + 1), <<OPEN_BRACKET>>)
        THEN Ok(None)
        ELSE
    Let(Find(content, OPEN_BRACKET,
             IF quoted THEN Len(content) - Len(trimmed) + closing + 1 ELSE 1),
        LAMBDA bracket_start :
        IF bracket_start = 0 THEN Ok(None)
        ELSE
    Let(Find(content, CLOSE_BRACKET, bracket_start), LAMBDA bracket_end :
        IF bracket_end = 0 THEN Ok(None)
        ELSE
    Let2(Find(content, OPEN_BRACE, bracket_end + 1),
         Find(content, COLON, bracket_end + 1),
         LAMBDA brace_start, colon_after_bracket :
    Let(IF brace_start # 0 THEN Find(content, CLOSE_BRACE, brace_start) ELSE 0,
        LAMBDA found_end :
    \* the header colon is looked for after the closing brace when the
    \* braces come before the first colon
    Let(Find(content, COLON,
             IF brace_start # 0 /\ colon_after_bracket # 0
                /\ brace_start < colon_after_bracket /\ found_end # 0
             THEN found_end + 1
             ELSE bracket_end + 1), LAMBDA colon_index :
        IF colon_index = 0 THEN Ok(None)
        ELSE
    Let(Trim(Slice(content, 1, bracket_start - 1)), LAMBDA raw_key :
    Let(IF bracket_start > 1 /\ StartsWith(raw_key, <<DOUBLE_QUOTE>>)
        THEN parse_string_literal(raw_key)
        ELSE Ok(raw_key), LAMBDA key :
        IF ~key.ok THEN key
        ELSE
    Let(parse_bracket_segment(Slice(content, bracket_start + 1, bracket_end - 1),
                              default_delimiter), LAMBDA segment :
        IF ~segment.ok THEN Ok(None)
        ELSE
    LET has_fields == brace_start # 0 /\ brace_start < colon_index
                         /\ found_end # 0 /\ found_end < colon_index
    IN
    Let(IF has_fields
        THEN parse_delimited_values(
                 Slice(content, brace_start + 1, found_end - 1),
                 segment.v.delimiter)
        ELSE <<>>, LAMBDA raw_fields :
    Let(Collect([i \in 1..Len(raw_fields) |->
                    parse_string_literal(Trim(raw_fields[i]))]),
        LAMBDA parsed_fields :
        IF ~parsed_fields.ok THEN parsed_fields
        ELSE
    Let(Trim(From(content, colon_index + 1)), LAMBDA after_colon :
        Ok(Some([
            header |-> [key |-> IF bracket_start > 1 /\ Len(raw_key) > 0
                                THEN Some(key.v) ELSE None,
                        length |-> segment.v.length,
                        delimiter |-> segment.v.delimiter,
                        fields |-> IF has_fields THEN Some(parsed_fields.v)
                                   ELSE None],
            inline_values |-> IF Len(after_colon) = 0 THEN None
                              ELSE Some(after_colon)])))))))))))))))

\* Ok([key, end]) where end is the position after the colon.
parse_unquoted_key(content, start) ==
    Let(Find(content, COLON, start), LAMBDA pos :
        IF pos = 0 THEN Err("Missing colon after key", 0)
        ELSE Ok([key |-> Trim(Slice(content, start, pos - 1)), end |-> pos + 1]))

parse_quoted_key(content, start) ==
    Let(find_closing_quote(content, start), LAMBDA closing :
        IF closing = 0 THEN Err("Unterminated quoted key", 0)
        ELSE Let(unescape_string(Slice(content, start + 1, closing - 1)),
                 LAMBDA key :
                 IF ~key.ok THEN key
                 ELSE IF closing + 1 > Len(content) \/ content[closing + 1] # COLON
                 THEN Err("Missing colon after key", 0)
                 ELSE Ok([key |-> key.v, end |-> closing + 2])))

parse_key_token(content, start) ==
    LET is_quoted == start <= Len(content) /\ content[start] = DOUBLE_QUOTE
    IN  Let(IF is_quoted THEN parse_quoted_key(content, start)
            ELSE parse_unquoted_key(content, start), LAMBDA parsed :
            IF parsed.ok
            THEN Ok([key |-> parsed.v.key, end |-> parsed.v.end,
                     is_quoted |-> is_quoted])
            ELSE parsed)

is_array_header_content(content) ==
    /\ StartsWith(TrimStart(content), <<OPEN_BRACKET>>)
    /\ find_unquoted_char(content, COLON, 1) # 0

is_key_value_content(content) == find_unquoted_char(content, COLON, 1) # 0

-----------------------------------------------------------------------------
(* decode/scanner.rs *)

compute_depth_from_indent(indent_spaces, indent_size) ==
    IF indent_size = 0 THEN 0 ELSE indent_spaces \div indent_size

\* The number of leading characters of raw that belong to `set`.
RECURSIVE LeadingRun(_, _, _)
LeadingRun(raw, set, n) ==
    IF n < Len(raw) /\ raw[n + 1] \in set THEN LeadingRun(raw, set, n + 1) ELSE n

\* parse_line_incremental with the tab check run on raw[..indent], the
\* leading spaces, instead of raw[..whitespace_end]: it never finds a tab.
parse_line_incremental_tabs_missed(raw, line_number, indent_size, strict) ==
    Let(LeadingRun(raw, {SPACE}, 0), LAMBDA indent :
        IF Len(Trim(From(raw, indent + 1))) = 0 THEN Ok(None)
        ELSE IF strict /\ Contains(Slice(raw, 1, indent), TAB)
        THEN Err("Tabs are not allowed in indentation in strict mode",
                 line_number)
        ELSE IF strict /\ indent_size = 0 /\ indent > 0
        THEN Err("Indentation must be exact multiple", line_number)
        ELSE IF strict /\ indent_size # 0 /\ indent > 0
                /\ indent % indent_size # 0
        THEN Err("Indentation must be exact multiple", line_number)
        ELSE Ok(Some([raw |-> raw, indent |-> indent,
                      content |-> From(raw, indent + 1),
                      depth |-> compute_depth_from_indent(indent, indent_size),
                      line_number |-> line_number])))

\* Ok(None) for a blank line (recorded in blank_lines by the caller),
\* Ok(Some(ParsedLine)) otherwise, Err for a strict-mode violation.
parse_line_incremental(raw, line_number, indent_size, strict) ==
    Let2(LeadingRun(raw, {SPACE}, 0), LeadingRun(raw, {SPACE, TAB}, 0),
         LAMBDA indent, whitespace_end :
         IF Len(Trim(From(raw, indent + 1))) = 0 THEN Ok(None)
         ELSE IF strict /\ Contains(Slice(raw, 1, whitespace_end), TAB)
         THEN Err("Tabs are not allowed in indentation in strict mode",
                  line_number)
         ELSE IF strict /\ indent_size = 0 /\ indent > 0
         THEN Err("Indentation must be exact multiple", line_number)
         ELSE IF strict /\ indent_size # 0 /\ indent > 0
                 /\ indent % indent_size # 0
         THEN Err("Indentation must be exact multiple", line_number)
         ELSE Ok(Some([raw |-> raw, indent |-> indent,
                       content |-> From(raw, indent + 1),
                       depth |-> compute_depth_from_indent(indent, indent_size),
                       line_number |-> line_number])))

\* BlankLineInfo of a blank raw line.
BlankLineInfo(raw, line_number, indent_size) ==
    Let(LeadingRun(raw, {SPACE}, 0), LAMBDA indent :
        [line_number |-> line_number, indent |-> indent,
         depth |-> compute_depth_from_indent(indent, indent_size)])

\* The loop of parse_lines_sync over source[i..], the scan state being
\* (line_number = i - 1, blank_lines) and lines the result so far.
RECURSIVE parse_lines_sync_from(_, _, _, _, _, _)
parse_lines_sync_from(source, indent_size, strict, i, lines, blank_lines) ==
    IF i > Len(source) THEN Ok([lines |-> lines, blank_lines |-> blank_lines])
    ELSE Let(parse_line_incremental(source[i], i, indent_size, strict),
             LAMBDA parsed :
             IF ~parsed.ok THEN parsed
             ELSE parse_lines_sync_from(source, indent_size, strict, i + 1,
                      IF parsed.v.some THEN Append(lines, parsed.v.v) ELSE lines,
                      IF parsed.v.some THEN blank_lines
                      ELSE Append(blank_lines,
                                  BlankLineInfo(source[i], i, indent_size))))

parse_lines_sync(source, indent_size, strict) ==
    parse_lines_sync_from(source, indent_size, strict, 1, <<>>, <<>>)

-----------------------------------------------------------------------------
(* decode/validation.rs: each check returns Ok(TRUE) or its error. *)

\* assert_expected_count that accepts fewer items than expected.
assert_expected_count_at_most(actual, expected, item_type, strict) ==
    IF strict /\ actual > expected THEN Err(item_type, 0) ELSE Ok(TRUE)

assert_expected_count(actual, expected, item_type, strict) ==
    IF strict /\ actual # expected THEN Err(item_type, 0) ELSE Ok(TRUE)

validate_no_extra_list_items(next_line, item_depth, expected_count, strict) ==
    IF /\ strict
       /\ next_line.some
       /\ next_line.v.depth = item_depth
       /\ StartsWith(next_line.v.content, LIST_ITEM_PREFIX)
    THEN Err("Expected list array items, but found more", 0)
    ELSE Ok(TRUE)

is_data_row(content, delimiter) ==
    Let2(find_unquoted_char(content, COLON, 1),
         find_unquoted_char(content, delimiter, 1),
         LAMBDA colon_pos, delimiter_pos :
         IF colon_pos = 0 THEN TRUE
         ELSE IF delimiter_pos # 0 THEN delimiter_pos < colon_pos
         ELSE FALSE)

validate_no_extra_tabular_rows(next_line, row_depth, header, strict) ==
    IF /\ strict
       /\ next_line.some
       /\ next_line.v.depth = row_depth
       /\ ~StartsWith(next_line.v.content, LIST_ITEM_PREFIX)
       /\ is_data_row(next_line.v.content, header.delimiter)
    THEN Err("Expected tabular rows, but found more", 0)
    ELSE Ok(TRUE)

validate_no_blank_lines_in_range_skipped(start_line, end_line, blank_lines, strict, context) ==
    Ok(TRUE)

validate_no_blank_lines_in_range(start_line, end_line, blank_lines, strict, context) ==
    Let({i \in 1..Len(blank_lines) :
            /\ blank_lines[i].line_number > start_line
            /\ blank_lines[i].line_number < end_line}, LAMBDA inside :
        IF ~strict THEN Ok(TRUE)
        ELSE IF inside # {}
        THEN Err(context, blank_lines[CHOOSE i \in inside :
                                         \A j \in inside : i <= j].line_number)
        ELSE Ok(TRUE))

-----------------------------------------------------------------------------
(* decode/decoders.rs.  L is the StreamingLineCursor's fixed part (lines,   *)
(* blank_lines), o the DecoderContext (indent, strict), and S what the      *)
(* decoders mutate: the events pushed so far, the cursor's index (the       *)
(* 1-based position of the next line), the line number of the cursor's      *)
(* last_line (0 for None), and the error that ended the decode.             *)

InitialState ==
    [ok |-> TRUE, err |-> [msg |-> "", line |-> 0],
     events |-> <<>>, index |-> 1, last |-> 0]

Push(S, evs) == [S EXCEPT !.events = @ \o evs]

Fail(S, e) == [S EXCEPT !.ok = FALSE, !.err = e.err]

\* StreamingLineCursor::at_end_sync
at_end_sync(L, S) == S.index > Len(L.lines)

\* StreamingLineCursor::peek_sync
peek_sync(L, S) == IF at_end_sync(L, S) THEN None ELSE Some(L.lines[S.index])

\* StreamingLineCursor::advance_sync and next_sync
advance_sync(L, S) ==
    IF at_end_sync(L, S) THEN S
    ELSE [S EXCEPT !.last = L.lines[S.index].line_number, !.index = @ + 1]

yield_object_from_fields_unclosed(S, fields, primitives) ==
    LET pair(i) == <<Key(fields[i], FALSE),
                     Primitive(IF i <= Len(primitives) THEN primitives[i] ELSE NullP)>>
        RECURSIVE pairs(_)
        pairs(i) == IF i > Len(fields) THEN <<>> ELSE pair(i) \o pairs(i + 1)
    IN  Push(S, <<StartObject>> \o pairs(1))

yield_object_from_fields_unpadded(S, fields, primitives) ==
    LET pair(i) == <<Key(fields[i], FALSE), Primitive(primitives[i])>>
        RECURSIVE pairs(_)
        pairs(i) == IF i > Len(fields) \/ i > Len(primitives) THEN <<>>
                    ELSE pair(i) \o pairs(i + 1)
    IN  Push(S, <<StartObject>> \o pairs(1) \o <<EndObject>>)

yield_object_from_fields(S, fields, primitives) ==
    LET pair(i) == <<Key(fields[i], FALSE),
                     Primitive(IF i <= Len(primitives) THEN primitives[i] ELSE NullP)>>
        RECURSIVE pairs(_)
        pairs(i) == IF i > Len(fields) THEN <<>> ELSE pair(i) \o pairs(i + 1)
    IN  Push(S, <<StartObject>> \o pairs(1) \o <<EndObject>>)

is_key_value_line_sync(line) ==
    IF StartsWith(line.content, <<DOUBLE_QUOTE>>)
    THEN Let(find_closing_quote(line.content, 1), LAMBDA closing :
             closing # 0 /\ Contains(From(line.content, closing + 1), COLON))
    ELSE Contains(line.content, COLON)

\* decode_inline_primitive_array_sync that, in strict mode, keeps the first
\* header.length values of a longer row instead of rejecting it.
decode_inline_primitive_array_sync_truncating(o, S, header, inline_values) ==
    IF Len(Trim(inline_values)) = 0
    THEN Let(assert_expected_count(0, header.length, "inline array items",
                 o.strict), LAMBDA count :
             IF count.ok THEN S ELSE Fail(S, count))
    ELSE Let(map_row_values_to_primitives(
                 parse_delimited_values(inline_values, header.delimiter)),
             LAMBDA primitives :
             IF ~primitives.ok THEN Fail(S, primitives)
             ELSE IF o.strict /\ Len(primitives.v) > header.length
             THEN Push(S, [i \in 1..header.length |->
                              Primitive(primitives.v[i])])
             ELSE Let(assert_expected_count(Len(primitives.v), header.length,
                          "inline array items", o.strict), LAMBDA count :
                      IF ~count.ok THEN Fail(S, count)
                      ELSE Push(S, [i \in 1..Len(primitives.v) |->
                                       Primitive(primitives.v[i])])))

decode_inline_primitive_array_sync(o, S, header, inline_values) ==
    IF Len(Trim(inline_values)) = 0
    THEN Let(assert_expected_count(0, header.length, "inline array items",
                 o.strict), LAMBDA count :
             IF count.ok THEN S ELSE Fail(S, count))
    ELSE Let(map_row_values_to_primitives(
                 parse_delimited_values(inline_values, header.delimiter)),
             LAMBDA primitives :
             IF ~primitives.ok THEN Fail(S, primitives)
             ELSE Let(assert_expected_count(Len(primitives.v), header.length,
                          "inline array items", o.strict), LAMBDA count :
                      IF ~count.ok THEN Fail(S, count)
                      ELSE Push(S, [i \in 1..Len(primitives.v) |->
                                       Primitive(primitives.v[i])])))

\* The row loop of decode_tabular_array_sync; T carries S and the loop's
\* row_count, start_line and end_line (0 for None).
RECURSIVE decode_tabular_rows(_, _, _, _, _)
decode_tabular_rows(L, o, T, header, row_depth) ==
    LET S == T.S
        line == L.lines[T.S.index]
    IN  IF at_end_sync(L, S) \/ ~(T.row_count < header.length) THEN T
        ELSE IF line.depth < row_depth THEN T
        ELSE IF line.depth # row_depth THEN T
        ELSE
    Let(parse_delimited_values(line.content, header.delimiter), LAMBDA values :
    Let(assert_expected_count(Len(values), Len(header.fields.v),
            "tabular row values", o.strict), LAMBDA count :
        IF ~count.ok THEN [T EXCEPT !.S = Fail(advance_sync(L, S), count)]
        ELSE
    Let(map_row_values_to_primitives(values), LAMBDA primitives :
        IF ~primitives.ok
        THEN [T EXCEPT !.S = Fail(advance_sync(L, S), primitives)]
        ELSE decode_tabular_rows(L, o,
                 [S |-> yield_object_from_fields(advance_sync(L, S),
                            header.fields.v, primitives.v),
                  row_count |-> T.row_count + 1,
                  start_line |-> IF T.start_line = 0 THEN line.line_number
                                 ELSE T.start_line,
                  end_line |-> line.line_number],
                 header, row_depth))))

decode_tabular_array_sync(L, o, S0, header, base_depth) ==
    Let(decode_tabular_rows(L, o,
            [S |-> S0, row_count |-> 0, start_line |-> 0, end_line |-> 0],
            header, base_depth + 1), LAMBDA T :
        IF ~T.S.ok THEN T.S
        ELSE
    Let(assert_expected_count(T.row_count, header.length, "tabular rows",
            o.strict), LAMBDA count :
        IF ~count.ok THEN Fail(T.S, count)
        ELSE
    Let(IF o.strict /\ T.start_line # 0 /\ T.end_line # 0
        THEN validate_no_blank_lines_in_range(T.start_line, T.end_line,
                 L.blank_lines, o.strict, "tabular array")
        ELSE Ok(TRUE), LAMBDA blanks :
        IF ~blanks.ok THEN Fail(T.S, blanks)
        ELSE
    Let(validate_no_extra_tabular_rows(peek_sync(L, T.S), base_depth + 1,
            header, o.strict), LAMBDA extra :
        IF ~extra.ok THEN Fail(T.S, extra) ELSE T.S))))

\* The decoders below are mutually recursive; they reach one another through
\* decode_sync(fn, ...), which is defined after them and names the callee.
RECURSIVE decode_sync(_, _, _, _, _, _)

decode_key_value_sync(L, o, S, content, base_depth) ==
    Let(parse_array_header_line(content, DEFAULT_DELIMITER), LAMBDA header_info :
        IF ~header_info.ok THEN Fail(S, header_info)
        ELSE IF header_info.v.some /\ header_info.v.v.header.key.some
        THEN decode_sync("decode_array_from_header_sync", L, o,
                 Push(S, <<Key(header_info.v.v.header.key.v, FALSE)>>),
                 header_info.v.v, base_depth)
        ELSE
    Let(parse_key_token(content, 1), LAMBDA token :
        IF ~token.ok THEN Fail(S, token)
        ELSE
    Let2(Trim(From(content, token.v.end)),
         Push(S, <<Key(token.v.key, token.v.is_quoted)>>), LAMBDA rest, S1 :
        IF Len(rest) = 0
        THEN Let(peek_sync(L, S1), LAMBDA next :
                 IF next.some /\ next.v.depth > base_depth
                 THEN Let(decode_sync("decode_object_fields_sync", L, o,
                              Push(S1, <<StartObject>>), <<>>, base_depth + 1),
                          LAMBDA nested :
                          IF nested.ok THEN Push(nested, <<EndObject>>)
                          ELSE nested)
                 ELSE Push(S1, <<StartObject, EndObject>>))
        ELSE Let(parse_primitive_token(rest), LAMBDA primitive :
                 IF ~primitive.ok THEN Fail(S1, primitive)
                 ELSE Push(S1, <<Primitive(primitive.v)>>)))))

\* The loop of decode_object_fields_sync; computed_depth is an Option.
RECURSIVE decode_object_fields_loop(_, _, _, _, _)
decode_object_fields_loop(L, o, S, base_depth, computed_depth) ==
    LET line == L.lines[S.index]
        computed == IF computed_depth.some THEN computed_depth.v ELSE line.depth
    IN  IF at_end_sync(L, S) THEN S
        ELSE IF line.depth < base_depth THEN S
        ELSE IF line.depth # computed THEN S
        ELSE Let(decode_sync("decode_key_value_sync", L, o, advance_sync(L, S),
                     line.content, line.depth), LAMBDA S1 :
                 IF ~S1.ok THEN S1
                 ELSE decode_object_fields_loop(L, o, S1, base_depth,
                          Some(computed)))

decode_object_fields_sync(L, o, S, base_depth) ==
    decode_object_fields_loop(L, o, S, base_depth, None)

\* The item loop of decode_list_array_sync, T as in decode_tabular_rows.
RECURSIVE decode_list_items(_, _, _, _, _)
decode_list_items(L, o, T, header, item_depth) ==
    LET S == T.S
        line == L.lines[T.S.index]
        is_list_item == StartsWith(line.content, LIST_ITEM_PREFIX)
                           \/ line.content = LIST_ITEM_MARKER
    IN  IF at_end_sync(L, S) \/ ~(T.row_count < header.length) THEN T
        ELSE IF line.depth < item_depth THEN T
        ELSE IF ~(line.depth = item_depth /\ is_list_item) THEN T
        ELSE Let(decode_sync("decode_list_item_sync", L, o, S, <<>>, item_depth),
                 LAMBDA S1 :
                 IF ~S1.ok THEN [T EXCEPT !.S = S1]
                 ELSE decode_list_items(L, o,
                          [S |-> S1,
                           row_count |-> T.row_count + 1,
                           start_line |-> IF T.start_line = 0
                                          THEN line.line_number
                                          ELSE T.start_line,
                           end_line |-> IF S1.last # 0 THEN S1.last
                                        ELSE line.line_number],
                          header, item_depth))

decode_list_array_sync(L, o, S0, header, base_depth) ==
    Let(decode_list_items(L, o,
            [S |-> S0, row_count |-> 0, start_line |-> 0, end_line |-> 0],
            header, base_depth + 1), LAMBDA T :
        IF ~T.S.ok THEN T.S
        ELSE
    Let(assert_expected_count(T.row_count, header.length, "list array items",
            o.strict), LAMBDA count :
        IF ~count.ok THEN Fail(T.S, count)
        ELSE
    Let(IF o.strict /\ T.start_line # 0 /\ T.end_line # 0
        THEN validate_no_blank_lines_in_range(T.start_line, T.end_line,
                 L.blank_lines, o.strict, "list array")
        ELSE Ok(TRUE), LAMBDA blanks :
        IF ~blanks.ok THEN Fail(T.S, blanks)
        ELSE
    Let(validate_no_extra_list_items(peek_sync(L, T.S), base_depth + 1,
            header.length, o.strict), LAMBDA extra :
        IF ~extra.ok THEN Fail(T.S, extra) ELSE T.S))))

decode_array_from_header_sync(L, o, S, header_info, base_depth) ==
    LET header == header_info.header
        S1 == Push(S, <<StartArray(header_info.header.length)>>)
    IN  Let(IF header_info.inline_values.some
            THEN decode_inline_primitive_array_sync(o, S1, header,
                     header_info.inline_values.v)
            ELSE IF header.fields.some /\ Len(header.fields.v) > 0
            THEN decode_tabular_array_sync(L, o, S1, header, base_depth)
            ELSE decode_list_array_sync(L, o, S1, header, base_depth),
            LAMBDA body :
            IF body.ok THEN Push(body, <<EndArray>>) ELSE body)

\* The loop over the sibling fields of an object list item (both copies).
RECURSIVE decode_item_fields_loop(_, _, _, _)
decode_item_fields_loop(L, o, S, follow_depth) ==
    LET next_line == L.lines[S.index]
    IN  IF ~S.ok \/ at_end_sync(L, S) THEN S
        ELSE IF next_line.depth < follow_depth THEN S
        ELSE IF ~(next_line.depth = follow_depth
                  /\ ~StartsWith(next_line.content, LIST_ITEM_PREFIX)) THEN S
        ELSE decode_item_fields_loop(L, o,
                 decode_sync("decode_key_value_sync", L, o, advance_sync(L, S),
                     next_line.content, follow_depth),
                 follow_depth)

decode_list_item_sync(L, o, S0, base_depth) ==
    LET line == L.lines[S0.index]
        S == advance_sync(L, S0)
        after_hyphen == From(L.lines[S0.index].content, Len(LIST_ITEM_PREFIX) + 1)
    IN  IF at_end_sync(L, S0) THEN Fail(S0, Err("Expected list item", 0))
        ELSE IF line.content = LIST_ITEM_MARKER
        THEN Push(S, <<StartObject, EndObject>>)
        ELSE IF ~StartsWith(line.content, LIST_ITEM_PREFIX)
        THEN Fail(S, Err("Expected list item to start with \"- \"", 0))
        ELSE IF Len(Trim(after_hyphen)) = 0
        THEN Push(S, <<StartObject, EndObject>>)
        ELSE
    Let(parse_array_header_line(after_hyphen, DEFAULT_DELIMITER),
        LAMBDA header_info :
        IF ~header_info.ok THEN Fail(S, header_info)
        ELSE IF is_array_header_content(after_hyphen) /\ header_info.v.some
        THEN decode_sync("decode_array_from_header_sync", L, o, S,
                 header_info.v.v, base_depth)
        ELSE
    LET tabular_first == /\ header_info.v.some
                         /\ header_info.v.v.header.key.some
                         /\ header_info.v.v.header.fields.some
    IN  IF tabular_first \/ is_key_value_content(after_hyphen)
        \* the item is an object: its first field, then the sibling fields
        THEN Let(decode_item_fields_loop(L, o,
                     IF tabular_first
                     THEN decode_sync("decode_array_from_header_sync", L, o,
                              Push(S, <<StartObject,
                                        Key(header_info.v.v.header.key.v,
                                            FALSE)>>),
                              header_info.v.v, base_depth + 1)
                     ELSE decode_sync("decode_key_value_sync", L, o,
                              Push(S, <<StartObject>>), after_hyphen,
                              base_depth + 1),
                     base_depth + 1), LAMBDA fields :
                 IF fields.ok THEN Push(fields, <<EndObject>>) ELSE fields)
        ELSE Let(parse_primitive_token(after_hyphen), LAMBDA primitive :
                 IF ~primitive.ok THEN Fail(S, primitive)
                 ELSE Push(S, <<Primitive(primitive.v)>>)))

\* fn names the decoder to run; x is its content or header_info argument
\* (unused by the two that take none).
decode_sync(fn, L, o, S, x, depth) ==
    CASE fn = "decode_key_value_sync" -> decode_key_value_sync(L, o, S, x, depth)
      [] fn = "decode_object_fields_sync" ->
            decode_object_fields_sync(L, o, S, depth)
      [] fn = "decode_array_from_header_sync" ->
            decode_array_from_header_sync(L, o, S, x, depth)
      [] fn = "decode_list_item_sync" -> decode_list_item_sync(L, o, S, depth)

\* The loop of decode_stream_sync over the root object's further fields.
RECURSIVE decode_root_fields_loop(_, _, _)
decode_root_fields_loop(L, o, S) ==
    IF ~S.ok \/ at_end_sync(L, S) THEN S
    ELSE IF L.lines[S.index].depth # 0 THEN S
    ELSE decode_root_fields_loop(L, o,
             decode_sync("decode_key_value_sync", L, o, advance_sync(L, S),
                 L.lines[S.index].content, 0))

\* decode_stream_sync once the lines are scanned: the final DecodeState.
decode_scanned_lines(L, o) ==
    LET S == InitialState
        first == L.lines[1]
        S1 == advance_sync(L, InitialState)
    IN  IF Len(L.lines) = 0 THEN Push(S, <<StartObject, EndObject>>)
        ELSE
    Let(IF is_array_header_content(first.content)
        THEN parse_array_header_line(first.content, DEFAULT_DELIMITER)
        ELSE Ok(None), LAMBDA header_info :
        IF ~header_info.ok THEN Fail(S, header_info)
        ELSE IF header_info.v.some
        THEN decode_sync("decode_array_from_header_sync", L, o, S1,
                 header_info.v.v, 0)
        ELSE IF at_end_sync(L, S1) /\ ~is_key_value_line_sync(first)
        THEN Let(parse_primitive_token(Trim(first.content)), LAMBDA primitive :
                 IF primitive.ok THEN Push(S1, <<Primitive(primitive.v)>>)
                 ELSE Fail(S1, primitive))
        ELSE Let(decode_root_fields_loop(L, o,
                     decode_sync("decode_key_value_sync", L, o,
                         Push(S1, <<StartObject>>), first.content, 0)),
                 LAMBDA fields :
                 IF fields.ok THEN Push(fields, <<EndObject>>) ELSE fields))

\* The final DecodeState of decode_stream_sync: .ok and .events are the
\* Result; .index tells how far the cursor got.
decode_stream_state(source, o) ==
    Let(parse_lines_sync(source, o.indent, o.strict), LAMBDA scanned :
        IF ~scanned.ok THEN Fail(InitialState, scanned)
        ELSE decode_scanned_lines(scanned.v, o))

\* Result<Vec<JsonStreamEvent>>
decode_stream_sync(source, o) ==
    Let(decode_stream_state(source, o), LAMBDA S :
        IF S.ok THEN Ok(S.events) ELSE [ok |-> FALSE, err |-> S.err])

-----------------------------------------------------------------------------
(* decode/event_builder.rs.  A NodeValue is a primitive, an array node or   *)
(* an object node; the object node carries the set of its quoted keys.      *)

NodeArray(items) == [t |-> "arr", items |-> items]

NodeObject(entries, quoted_keys) ==
    [t |-> "obj", entries |-> entries, quoted_keys |-> quoted_keys]

ObjectContext(entries, current_key, quoted_keys) ==
    [c |-> "Object", entries |-> entries, current_key |-> current_key,
     quoted_keys |-> quoted_keys]

ArrayContext(items) == [c |-> "Array", items |-> items]

BuildFail(B, msg) == [B EXCEPT !.ok = FALSE, !.err = [msg |-> msg, line |-> 0]]

attach_node_keyless(B, node, missing_key) ==
    LET depth == Len(B.stack)
        parent == B.stack[depth]
    IN  IF depth = 0 THEN [B EXCEPT !.root = Some(node)]
        ELSE IF parent.c = "Object"
        THEN IF ~parent.current_key.some THEN B
             ELSE [B EXCEPT !.stack[depth] =
                      ObjectContext(Append(parent.entries,
                                           <<parent.current_key.v, node>>),
                                    None, parent.quoted_keys)]
        ELSE [B EXCEPT !.stack[depth] = ArrayContext(Append(parent.items, node))]

\* The shared tail of the EndObject, EndArray and Primitive arms: hand a
\* finished node to the parent context, or make it the root.
attach_node(B, node, missing_key) ==
    LET depth == Len(B.stack)
        parent == B.stack[depth]
    IN  IF depth = 0 THEN [B EXCEPT !.root = Some(node)]
        ELSE IF parent.c = "Object"
        THEN IF ~parent.current_key.some THEN BuildFail(B, missing_key)
             ELSE [B EXCEPT !.stack[depth] =
                      ObjectContext(Append(parent.entries,
                                           <<parent.current_key.v, node>>),
                                    None, parent.quoted_keys)]
        ELSE [B EXCEPT !.stack[depth] = ArrayContext(Append(parent.items, node))]

apply_event(B, event) ==
    LET depth == Len(B.stack)
        top == B.stack[depth]
        popped == [B EXCEPT !.stack = SubSeq(B.stack, 1, depth - 1)]
    IN  CASE event.e = "StartObject" ->
                [B EXCEPT !.stack = Append(@, ObjectContext(<<>>, None, {}))]
          [] event.e = "EndObject" ->
                IF depth = 0 THEN BuildFail(B, "Unexpected endObject event")
                ELSE IF top.c # "Object"
                THEN BuildFail(popped, "Mismatched endObject event")
                ELSE attach_node(popped, NodeObject(top.entries, top.quoted_keys),
                         "Object endObject event without preceding key")
          [] event.e = "StartArray" ->
                [B EXCEPT !.stack = Append(@, ArrayContext(<<>>))]
          [] event.e = "EndArray" ->
                IF depth = 0 THEN BuildFail(B, "Unexpected endArray event")
                ELSE IF top.c # "Array"
                THEN BuildFail(popped, "Mismatched endArray event")
                ELSE attach_node(popped, NodeArray(top.items),
                         "Array endArray event without preceding key")
          [] event.e = "Key" ->
                IF depth = 0 \/ top.c # "Object"
                THEN BuildFail(B, "Key event outside of object context")
                ELSE [B EXCEPT !.stack[depth] =
                         ObjectContext(top.entries, Some(event.key),
                             IF event.was_quoted
                             THEN top.quoted_keys \cup {event.key}
                             ELSE top.quoted_keys)]
          [] event.e = "Primitive" ->
                attach_node(B, event.value,
                    "Primitive event without preceding key in object")

finalize_state(B) ==
    IF Len(B.stack) # 0
    THEN Err("Incomplete event stream: stack not empty at end", 0)
    ELSE IF ~B.root.some THEN Err("No root value built from events", 0)
    ELSE Ok(B.root.v)

RECURSIVE apply_events(_, _, _)
apply_events(B, evs, i) ==
    IF i > Len(evs) \/ ~B.ok THEN B
    ELSE apply_events(apply_event(B, evs[i]), evs, i + 1)

build_node_from_events(evs) ==
    Let(apply_events([ok |-> TRUE, err |-> [msg |-> "", line |-> 0],
                      stack |-> <<>>, root |-> None], evs, 1), LAMBDA B :
        IF B.ok THEN finalize_state(B) ELSE [ok |-> FALSE, err |-> B.err])

RECURSIVE node_to_json(_)
node_to_json(value) ==
    IF IsPrimitive(value) THEN value
    ELSE IF value.t = "arr"
    THEN Arr([i \in 1..Len(value.items) |-> node_to_json(value.items[i])])
    ELSE Obj([i \in 1..Len(value.entries) |->
                 <<value.entries[i][1], node_to_json(value.entries[i][2])>>])

-----------------------------------------------------------------------------
(* decode/expand.rs.  Entry lists are threaded through as values; a result  *)
(* is Ok(entries) or the conflict error.                                    *)

\* Option<usize>: the 1-based position of the first entry with the key, or 0.
find_entry_index(entries, key) ==
    Let({i \in 1..Len(entries) : entries[i][1] = key}, LAMBDA hits :
        IF hits = {} THEN 0 ELSE CHOOSE i \in hits : \A j \in hits : i <= j)

can_merge(left, right) == left.t = "obj" /\ right.t = "obj"

node_type_name(value) ==
    IF value.t = "obj" THEN "object"
    ELSE IF value.t = "arr" THEN "array" ELSE "primitive"

RECURSIVE merge_objects(_, _, _)
merge_objects(target, source_entries, strict) ==
    IF Len(source_entries) = 0 THEN Ok(target)
    ELSE
    LET key == source_entries[1][1]
        value == source_entries[1][2]
    IN
    Let(find_entry_index(target.entries, key), LAMBDA index :
    \* the entry of the key after this source entry, or the conflict
    Let(IF index = 0 THEN Ok(value)
        ELSE IF can_merge(target.entries[index][2], value)
        THEN merge_objects(target.entries[index][2], value.entries, strict)
        ELSE IF strict THEN Err("Path expansion conflict at key", 0)
        ELSE Ok(value), LAMBDA merged :
        IF ~merged.ok THEN merged
        ELSE merge_objects(
                 IF index = 0
                 THEN [target EXCEPT !.entries = Append(@, <<key, merged.v>>)]
                 ELSE [target EXCEPT !.entries[index] = <<key, merged.v>>],
                 Tail(source_entries), strict)))

insert_literal_entry_first_wins(entries, key, value, strict) ==
    Let(find_entry_index(entries, key), LAMBDA index :
        IF index = 0 THEN Ok(Append(entries, <<key, value>>))
        ELSE IF can_merge(entries[index][2], value)
        THEN Let(merge_objects(entries[index][2], value.entries, strict),
                 LAMBDA merged :
                 IF ~merged.ok THEN merged
                 ELSE Ok([entries EXCEPT ![index] = <<key, merged.v>>]))
        ELSE IF strict THEN Err("Path expansion conflict at key", 0)
        ELSE Ok(entries))

insert_literal_entry(entries, key, value, strict) ==
    Let(find_entry_index(entries, key), LAMBDA index :
        IF index = 0 THEN Ok(Append(entries, <<key, value>>))
        ELSE IF can_merge(entries[index][2], value)
        THEN Let(merge_objects(entries[index][2], value.entries, strict),
                 LAMBDA merged :
                 IF ~merged.ok THEN merged
                 ELSE Ok([entries EXCEPT ![index] = <<key, merged.v>>]))
        ELSE IF strict THEN Err("Path expansion conflict at key", 0)
        ELSE Ok([entries EXCEPT ![index] = <<key, value>>]))

RECURSIVE insert_path_entries(_, _, _, _)
insert_path_entries(entries, segments, value, strict) ==
    IF Len(segments) = 0 THEN Ok(entries)
    ELSE IF Len(segments) = 1
    THEN insert_literal_entry(entries, segments[1], value, strict)
    ELSE
    Let(find_entry_index(entries, segments[1]), LAMBDA index :
    LET key == segments[1]
        needs_object == entries[index][2].t # "obj"
        child == IF index = 0 \/ entries[index][2].t # "obj"
                 THEN NodeObject(<<>>, {})
                 ELSE entries[index][2]
        at == IF index = 0 THEN Len(entries) + 1 ELSE index
        placed == IF index = 0
                  THEN Append(entries, <<segments[1], NodeObject(<<>>, {})>>)
                  ELSE entries
    IN  IF index # 0 /\ needs_object /\ strict
        THEN Err("Path expansion conflict at segment", 0)
        ELSE Let(insert_path_entries(child.entries, Tail(segments), value,
                     strict), LAMBDA inner :
                 IF ~inner.ok THEN inner
                 ELSE Ok([placed EXCEPT ![at] =
                             <<key, [child EXCEPT !.entries = inner.v]>>])))

RECURSIVE expand_paths_safe(_, _)
RECURSIVE expand_entries(_, _, _, _)

\* The loop of expand_object over obj.entries from position i on.
expand_entries(obj, expanded, i, strict) ==
    IF i > Len(obj.entries) THEN Ok(expanded)
    ELSE
    Let2(expand_paths_safe(obj.entries[i][2], strict),
         Split(obj.entries[i][1], DOT), LAMBDA value, segments :
        IF ~value.ok THEN value
        ELSE
    LET key == obj.entries[i][1]
        as_path == /\ Contains(obj.entries[i][1], DOT)
                   /\ obj.entries[i][1] \notin obj.quoted_keys
                   /\ \A s \in 1..Len(segments) : is_identifier_segment(segments[s])
    IN  Let(IF as_path
            THEN insert_path_entries(expanded, segments, value.v, strict)
            ELSE insert_literal_entry(expanded, key, value.v, strict),
            LAMBDA inserted :
            IF ~inserted.ok THEN inserted
            ELSE expand_entries(obj, inserted.v, i + 1, strict)))

expand_object(obj, strict) ==
    Let(expand_entries(obj, <<>>, 1, strict), LAMBDA entries :
        IF entries.ok THEN Ok(NodeObject(entries.v, {})) ELSE entries)

expand_paths_safe(value, strict) ==
    IF IsPrimitive(value) THEN Ok(value)
    ELSE IF value.t = "arr"
    THEN Let(Collect([i \in 1..Len(value.items) |->
                         expand_paths_safe(value.items[i], strict)]),
             LAMBDA items :
             IF items.ok THEN Ok(NodeArray(items.v)) ELSE items)
    ELSE expand_object(value, strict)

-----------------------------------------------------------------------------
(* decode/mod.rs.  DecodeOptions resolved: o.indent, o.strict and           *)
(* o.expand_paths ("off" or "safe").                                        *)

try_decode_from_lines(lines, o) ==
    Let(decode_stream_sync(lines, o), LAMBDA evs :
        IF ~evs.ok THEN evs
        ELSE
    Let(build_node_from_events(evs.v), LAMBDA node :
        IF ~node.ok THEN node
        ELSE
    Let(IF o.expand_paths = "safe" THEN expand_paths_safe(node.v, o.strict)
        ELSE node, LAMBDA expanded :
        IF ~expanded.ok THEN expanded
        ELSE Ok(node_to_json(expanded.v)))))

try_decode(text, o) == try_decode_from_lines(Split(text, NEWLINE), o)

-----------------------------------------------------------------------------
(* encode/normalize.rs *)

normalize_primitive(value) ==
    IF value.t = "nonfinite" THEN NullP
    ELSE IF value.t = "num" /\ value.mag = 0 THEN NumP(FALSE, 0, 0)
    ELSE value

RECURSIVE normalize_json_value(_)
normalize_json_value(value) ==
    IF IsPrimitive(value) THEN normalize_primitive(value)
    ELSE IF value.t = "arr"
    THEN Arr([i \in 1..Len(value.items) |-> normalize_json_value(value.items[i])])
    ELSE Obj([i \in 1..Len(value.entries) |->
                 <<value.entries[i][1], normalize_json_value(value.entries[i][2])>>])

is_json_primitive(value) == IsPrimitive(value)

is_json_object(value) == value.t = "obj"

is_empty_object(entries) == Len(entries) = 0

is_array_of_primitives(items) == \A i \in 1..Len(items) : IsPrimitive(items[i])

is_array_of_arrays(items) == \A i \in 1..Len(items) : items[i].t = "arr"

is_array_of_objects(items) == \A i \in 1..Len(items) : items[i].t = "obj"

-----------------------------------------------------------------------------
(* encode/primitives.rs *)

\* The k digits of n, zero-padded on the left.
RECURSIVE PadDigits(_, _)
PadDigits(n, k) ==
    IF k = 0 THEN <<>> ELSE PadDigits(n \div 10, k - 1) \o <<DigitChar(n % 10)>>

\* f64's Display: the shortest decimal that reads back, never an exponent.
format_number(value) ==
    IF value.t = "num" /\ value.mag = 0 THEN <<"0">>
    ELSE IF value.t = "nonfinite" THEN NULL_LITERAL
    ELSE (IF value.neg THEN <<"-">> ELSE <<>>)
         \o NatDigits(value.mag \div Pow10(value.k))
         \o (IF value.k = 0 THEN <<>>
             ELSE <<".">> \o PadDigits(value.mag % Pow10(value.k), value.k))

encode_string_literal(value, delimiter) ==
    IF is_safe_unquoted(value, delimiter) THEN value
    ELSE <<DOUBLE_QUOTE>> \o escape_string(value) \o <<DOUBLE_QUOTE>>

encode_primitive(value, delimiter) ==
    CASE value.t = "null" -> NULL_LITERAL
      [] value.t = "bool" -> IF value.b THEN TRUE_LITERAL ELSE FALSE_LITERAL
      [] value.t \in {"num", "nonfinite"} -> format_number(value)
      [] value.t = "str" -> encode_string_literal(value.s, delimiter)

encode_key(key) ==
    IF is_valid_unquoted_key(key) THEN key
    ELSE <<DOUBLE_QUOTE>> \o escape_string(key) \o <<DOUBLE_QUOTE>>

\* The pieces joined with the delimiter between them.
RECURSIVE Join(_, _)
Join(pieces, delimiter) ==
    IF Len(pieces) = 0 THEN <<>>
    ELSE IF Len(pieces) = 1 THEN pieces[1]
    ELSE pieces[1] \o <<delimiter>> \o Join(Tail(pieces), delimiter)

encode_and_join_primitives(values, delimiter) ==
    Join([i \in 1..Len(values) |-> encode_primitive(values[i], delimiter)],
         delimiter)

\* key and fields are Options.
format_header_one_more(length, key, fields, delimiter) ==
    (IF key.some THEN encode_key(key.v) ELSE <<>>)
    \o <<OPEN_BRACKET>> \o NatDigits(length + 1)
    \o (IF delimiter = DEFAULT_DELIMITER THEN <<>> ELSE <<delimiter>>)
    \o <<CLOSE_BRACKET>>
    \o (IF fields.some
        THEN <<OPEN_BRACE>>
             \o Join([i \in 1..Len(fields.v) |-> encode_key(fields.v[i])], delimiter)
             \o <<CLOSE_BRACE>>
        ELSE <<>>)
    \o <<COLON>>

format_header(length, key, fields, delimiter) ==
    (IF key.some THEN encode_key(key.v) ELSE <<>>)
    \o <<OPEN_BRACKET>> \o NatDigits(length)
    \o (IF delimiter = DEFAULT_DELIMITER THEN <<>> ELSE <<delimiter>>)
    \o <<CLOSE_BRACKET>>
    \o (IF fields.some
        THEN <<OPEN_BRACE>>
             \o Join([i \in 1..Len(fields.v) |-> encode_key(fields.v[i])], delimiter)
             \o <<CLOSE_BRACE>>
        ELSE <<>>)
    \o <<COLON>>

-----------------------------------------------------------------------------
(* encode/folding.rs.  e is the ResolvedEncodeOptions: indent, delimiter,   *)
(* key_folding ("off" or "safe") and flatten_depth.                         *)

\* The loop of collect_single_key_chain.
RECURSIVE collect_segments(_, _, _)
collect_segments(segments, current_value, max_depth) ==
    IF /\ Len(segments) < max_depth
       /\ current_value.t = "obj"
       /\ Len(current_value.entries) = 1
    THEN collect_segments(Append(segments, current_value.entries[1][1]),
                          current_value.entries[1][2], max_depth)
    ELSE [segments |-> segments, current_value |-> current_value]

collect_single_key_chain(start_key, start_value, max_depth) ==
    Let(collect_segments(<<start_key>>, start_value, max_depth), LAMBDA chain :
        [segments |-> chain.segments,
         tail |-> IF chain.current_value.t = "obj"
                     /\ ~is_empty_object(chain.current_value.entries)
                  THEN Some(chain.current_value) ELSE None,
         leaf_value |-> chain.current_value])

try_fold_key_chain_siblings_unchecked(key, value, siblings, e, root_literal_keys, path_prefix, flatten_depth) ==
    IF e.key_folding # "safe" \/ ~is_json_object(value) \/ flatten_depth < 2
    THEN None
    ELSE
    Let(collect_single_key_chain(key, value, flatten_depth), LAMBDA chain :
        IF Len(chain.segments) < 2 THEN None
        ELSE IF ~\A i \in 1..Len(chain.segments) :
                    is_identifier_segment(chain.segments[i])
        THEN None
        ELSE
    Let(Join(chain.segments, DOT), LAMBDA folded_key :
        IF /\ root_literal_keys.some
           /\ (IF path_prefix.some
               THEN path_prefix.v \o <<DOT>> \o folded_key
               ELSE folded_key) \in root_literal_keys.v
        THEN None
        ELSE Some([folded_key |-> folded_key, remainder |-> chain.tail,
                   leaf_value |-> chain.leaf_value,
                   segment_count |-> Len(chain.segments)])))

try_fold_key_chain(key, value, siblings, e, root_literal_keys, path_prefix, flatten_depth) ==
    IF e.key_folding # "safe" THEN None
    ELSE IF ~is_json_object(value) THEN None
    ELSE IF flatten_depth < 2 THEN None
    ELSE
    Let(collect_single_key_chain(key, value, flatten_depth), LAMBDA chain :
        IF Len(chain.segments) < 2 THEN None
        ELSE IF ~\A i \in 1..Len(chain.segments) :
                    is_identifier_segment(chain.segments[i])
        THEN None
        ELSE
    Let(Join(chain.segments, DOT), LAMBDA folded_key :
        IF \E i \in 1..Len(siblings) : siblings[i] = folded_key THEN None
        ELSE IF /\ root_literal_keys.some
                /\ (IF path_prefix.some
                    THEN path_prefix.v \o <<DOT>> \o folded_key
                    ELSE folded_key) \in root_literal_keys.v
        THEN None
        ELSE Some([folded_key |-> folded_key, remainder |-> chain.tail,
                   leaf_value |-> chain.leaf_value,
                   segment_count |-> Len(chain.segments)])))

-----------------------------------------------------------------------------
(* encode/encoders.rs.  Each encoder returns the lines it pushes to `out`.  *)

indented_line(depth, content, indent_size) ==
    Spaces(indent_size * depth) \o content

indented_list_item(depth, content, indent_size) ==
    indented_line(depth, LIST_ITEM_PREFIX \o content, indent_size)

\* Option<&JsonValue>
object_get(entries, key) ==
    Let({i \in 1..Len(entries) : entries[i][1] = key}, LAMBDA hits :
        IF hits = {} THEN None
        ELSE Some(entries[CHOOSE i \in hits : \A j \in hits : i <= j][2]))

is_tabular_array(rows, header) ==
    \A r \in 1..Len(rows) :
        /\ rows[r].t = "obj"
        /\ Len(rows[r].entries) = Len(header)
        /\ \A h \in 1..Len(header) :
              Let(object_get(rows[r].entries, header[h]), LAMBDA value :
                  value.some /\ is_json_primitive(value.v))

extract_tabular_header(rows) ==
    IF Len(rows) = 0 THEN None
    ELSE IF rows[1].t # "obj" THEN None
    ELSE IF Len(rows[1].entries) = 0 THEN None
    ELSE Let([i \in 1..Len(rows[1].entries) |-> rows[1].entries[i][1]],
             LAMBDA header :
             IF is_tabular_array(rows, header) THEN Some(header) ELSE None)

encode_inline_array_line(values, delimiter, key) ==
    Let2(SelectSeq(values, IsPrimitive),
         format_header(Len(values), key, None, delimiter),
         LAMBDA primitives, header :
         IF Len(primitives) = 0 THEN header
         ELSE header \o <<SPACE>>
                  \o encode_and_join_primitives(primitives, delimiter))

write_tabular_rows_lines(rows, header, depth, e) ==
    [r \in 1..Len(rows) |->
        indented_line(depth,
            encode_and_join_primitives(
                [h \in 1..Len(header) |->
                    object_get(rows[r].entries, header[h]).v],
                e.delimiter),
            e.indent)]

encode_array_of_objects_as_tabular_lines(key, rows, header, depth, e) ==
    <<indented_line(depth,
          format_header(Len(rows), key, Some(header), e.delimiter), e.indent)>>
    \o write_tabular_rows_lines(rows, header, depth + 1, e)

encode_array_of_arrays_as_list_items_lines(key, values, depth, e) ==
    <<indented_line(depth, format_header(Len(values), key, None, e.delimiter),
          e.indent)>>
    \o [i \in 1..Len(values) |->
           indented_list_item(depth + 1,
               encode_inline_array_line(values[i].items, e.delimiter, None),
               e.indent)]

\* The concatenation of a sequence of line lists.
RECURSIVE Flatten(_)
Flatten(blocks) ==
    IF Len(blocks) = 0 THEN <<>> ELSE Head(blocks) \o Flatten(Tail(blocks))

\* The encoders below call each other recursively; the recursive calls go
\* through encode_value_lines, which names the callee.  For
\* encode_object_lines x is <<root_literal_keys, path_prefix,
\* remaining_depth>>, for encode_array_lines it is the key.
RECURSIVE encode_value_lines(_, _, _, _, _)

encode_key_value_pair_lines(key, value, depth, e, siblings, root_literal_keys, path_prefix, flatten_depth) ==
    Let(try_fold_key_chain(key, value, siblings, e, root_literal_keys,
            path_prefix, flatten_depth), LAMBDA folded :
        IF folded.some /\ folded.v.remainder.some
        THEN <<indented_line(depth,
                   encode_key(folded.v.folded_key) \o <<COLON>>, e.indent)>>
             \o encode_value_lines("encode_object_lines",
                    folded.v.remainder.v.entries, depth + 1, e,
                    <<root_literal_keys,
                      Some(IF path_prefix.some
                           THEN path_prefix.v \o <<DOT>> \o folded.v.folded_key
                           ELSE folded.v.folded_key),
                      Some(IF flatten_depth < folded.v.segment_count THEN 0
                           ELSE flatten_depth - folded.v.segment_count)>>)
        ELSE IF folded.some /\ IsPrimitive(folded.v.leaf_value)
        THEN <<indented_line(depth,
                   encode_key(folded.v.folded_key) \o <<COLON, SPACE>>
                       \o encode_primitive(folded.v.leaf_value, e.delimiter),
                   e.indent)>>
        ELSE IF folded.some /\ folded.v.leaf_value.t = "arr"
        THEN encode_value_lines("encode_array_lines",
                 folded.v.leaf_value.items, depth, e, Some(folded.v.folded_key))
        ELSE IF folded.some /\ is_empty_object(folded.v.leaf_value.entries)
        THEN <<indented_line(depth,
                   encode_key(folded.v.folded_key) \o <<COLON>>, e.indent)>>
        ELSE IF value.t = "arr"
        THEN encode_value_lines("encode_array_lines", value.items, depth, e,
                 Some(key))
        ELSE IF IsPrimitive(value)
        THEN <<indented_line(depth,
                   encode_key(key) \o <<COLON, SPACE>>
                       \o encode_primitive(value, e.delimiter), e.indent)>>
        ELSE <<indented_line(depth, encode_key(key) \o <<COLON>>, e.indent)>>
             \o (IF is_empty_object(value.entries) THEN <<>>
                 ELSE encode_value_lines("encode_object_lines", value.entries,
                          depth + 1, e,
                          <<root_literal_keys,
                            Some(IF path_prefix.some
                                 THEN path_prefix.v \o <<DOT>> \o key
                                 ELSE key),
                            Some(flatten_depth)>>)))

encode_object_lines(value, depth, e, root_literal_keys, path_prefix, remaining_depth) ==
    LET keys == [i \in 1..Len(value) |-> value[i][1]]
        literal_keys ==
            IF depth = 0 /\ ~root_literal_keys.some
            THEN Some({value[i][1] : i \in {j \in 1..Len(value) :
                                               Contains(value[j][1], DOT)}})
            ELSE root_literal_keys
        effective_flatten_depth == IF remaining_depth.some THEN remaining_depth.v
                                   ELSE e.flatten_depth
    IN  Flatten([i \in 1..Len(value) |->
            encode_key_value_pair_lines(value[i][1], value[i][2], depth, e, keys,
                literal_keys, path_prefix, effective_flatten_depth)])

encode_mixed_array_as_list_items_lines(key, items, depth, e) ==
    <<indented_line(depth, format_header(Len(items), key, None, e.delimiter),
          e.indent)>>
    \o Flatten([i \in 1..Len(items) |->
           encode_value_lines("encode_list_item_value_lines", items[i],
               depth + 1, e, <<>>)])

encode_array_lines(key, value, depth, e) ==
    IF Len(value) = 0
    THEN <<indented_line(depth, format_header(0, key, None, e.delimiter),
               e.indent)>>
    ELSE IF is_array_of_primitives(value)
    THEN <<indented_line(depth,
               encode_inline_array_line(value, e.delimiter, key), e.indent)>>
    ELSE IF /\ is_array_of_arrays(value)
            /\ \A i \in 1..Len(value) :
                  value[i].t = "arr" /\ is_array_of_primitives(value[i].items)
    THEN encode_array_of_arrays_as_list_items_lines(key, value, depth, e)
    ELSE Let(IF is_array_of_objects(value) THEN extract_tabular_header(value)
             ELSE None, LAMBDA header :
             IF header.some
             THEN encode_array_of_objects_as_tabular_lines(key, value, header.v,
                      depth, e)
             ELSE encode_mixed_array_as_list_items_lines(key, value, depth, e))

encode_object_as_list_item_lines(obj, depth, e) ==
    IF Len(obj) = 0 THEN <<indented_line(depth, LIST_ITEM_MARKER, e.indent)>>
    ELSE
    LET first_key == obj[1][1]
        first_value == obj[1][2]
        items == obj[1][2].items
    IN
    Let2(IF obj[1][2].t = "arr" /\ is_array_of_objects(obj[1][2].items)
         THEN extract_tabular_header(obj[1][2].items)
         ELSE None,
         encode_key(obj[1][1]), LAMBDA header, encoded_key :
        (IF header.some
         THEN <<indented_list_item(depth,
                    format_header(Len(items), Some(first_key), Some(header.v),
                        e.delimiter), e.indent)>>
              \o write_tabular_rows_lines(items, header.v, depth + 2, e)
         ELSE IF IsPrimitive(first_value)
         THEN <<indented_list_item(depth,
                    encoded_key \o <<COLON, SPACE>>
                        \o encode_primitive(first_value, e.delimiter),
                    e.indent)>>
         ELSE IF first_value.t = "arr"
         THEN <<indented_list_item(depth,
                    encoded_key
                        \o (IF Len(items) > 0 /\ is_array_of_primitives(items)
                            THEN encode_inline_array_line(items, e.delimiter, None)
                            ELSE format_header(Len(items), None, None,
                                     e.delimiter)),
                    e.indent)>>
              \o (IF Len(items) = 0 \/ is_array_of_primitives(items) THEN <<>>
                  ELSE Flatten([i \in 1..Len(items) |->
                           encode_value_lines("encode_list_item_value_lines",
                               items[i], depth + 2, e, <<>>)]))
         ELSE <<indented_list_item(depth, encoded_key \o <<COLON>>, e.indent)>>)
        \o encode_value_lines("encode_object_lines",
               IF header.some \/ first_value.t # "obj" THEN <<>>
               ELSE first_value.entries,
               depth + 2, e, <<None, None, None>>)
        \o encode_value_lines("encode_object_lines", Tail(obj), depth + 1, e,
               <<None, None, None>>))

encode_list_item_value_lines(value, depth, e) ==
    IF IsPrimitive(value)
    THEN <<indented_list_item(depth, encode_primitive(value, e.delimiter),
               e.indent)>>
    ELSE IF value.t = "arr"
    THEN <<indented_list_item(depth,
               IF is_array_of_primitives(value.items)
               THEN encode_inline_array_line(value.items, e.delimiter, None)
               ELSE format_header(Len(value.items), None, None, e.delimiter),
               e.indent)>>
         \o (IF is_array_of_primitives(value.items) THEN <<>>
             ELSE Flatten([i \in 1..Len(value.items) |->
                      encode_value_lines("encode_list_item_value_lines",
                          value.items[i], depth + 1, e, <<>>)]))
    ELSE encode_object_as_list_item_lines(value.entries, depth, e)

encode_value_lines(fn, value, depth, e, x) ==
    CASE fn = "encode_object_lines" ->
             encode_object_lines(value, depth, e, x[1], x[2], x[3])
      [] fn = "encode_array_lines" -> encode_array_lines(x, value, depth, e)
      [] fn = "encode_list_item_value_lines" ->
             encode_list_item_value_lines(value, depth, e)

encode_json_value(value, e) ==
    IF IsPrimitive(value)
    THEN Let(encode_primitive(value, e.delimiter), LAMBDA encoded :
             IF Len(encoded) = 0 THEN <<>> ELSE <<encoded>>)
    ELSE encode_value_lines(
             IF value.t = "arr" THEN "encode_array_lines"
             ELSE "encode_object_lines",
             IF value.t = "arr" THEN value.items ELSE value.entries,
             0, e, IF value.t = "arr" THEN None ELSE <<None, None, None>>)

-----------------------------------------------------------------------------
(* encode/replacer.rs.  The caller's replacer is one of the pure closures  *)
(* of Replacers; each function returns the value it builds together with   *)
(* the calls it made to the replacer, in order.                            *)

\* PathSegment
PathKey(key) == [seg |-> "key", key |-> key]

PathIndex(index) == [seg |-> "index", index |-> index]

Replacers ==
    {"keep", "drop_a", "drop_first", "drop_root", "drop_objects",
     "replace_b", "wrap_root", "drop_all"}

\* EncodeReplacer: replacer(key, value, path)
CallReplacer(r, key, value, path) ==
    CASE r = "keep" -> Some(value)
      [] r = "drop_a" -> IF key = <<"a">> THEN None ELSE Some(value)
      [] r = "drop_first" -> IF key = <<"0">> THEN None ELSE Some(value)
      [] r = "drop_root" -> IF Len(path) = 0 THEN None ELSE Some(value)
      [] r = "drop_objects" ->
             IF Len(path) > 0 /\ value.t = "obj" THEN None ELSE Some(value)
      [] r = "replace_b" ->
             IF key = <<"b">> /\ Len(path) = 1
             THEN Some(Obj(<<<<(<<"a">>), value>>,
                             <<(<<"c">>), NumP(TRUE, 0, 0)>>,
                             <<(<<"d">>), Arr(<<value>>)>>>>))
             ELSE Some(value)
      [] r = "wrap_root" ->
             IF Len(path) = 0 THEN Some(Arr(<<value, StrP(<<"x">>)>>))
             ELSE Some(value)
      [] r = "drop_all" -> IF Len(path) = 0 THEN Some(value) ELSE None

\* One call of the replacer, as it is recorded in the trace.
ReplacerCall(r, key, value, path) ==
    [key |-> key, value |-> value, path |-> path,
     result |-> CallReplacer(r, key, value, path)]

RECURSIVE transform_children(_, _, _)

\* The loop of transform_object from entry i on; acc holds the result so
\* far and the calls made.
RECURSIVE transform_object_from(_, _, _, _, _)
transform_object_from(entries, replacer, path, i, acc) ==
    IF i > Len(entries) THEN acc
    ELSE
    Let(Append(path, PathKey(entries[i][1])), LAMBDA next_path :
    Let(ReplacerCall(replacer, entries[i][1], entries[i][2], next_path),
        LAMBDA call :
        IF ~call.result.some
        THEN transform_object_from(entries, replacer, path, i + 1,
                 [acc EXCEPT !.calls = Append(@, call)])
        ELSE
    Let(transform_children(normalize_json_value(call.result.v), replacer,
                           next_path), LAMBDA transformed :
        transform_object_from(entries, replacer, path, i + 1,
            [value |-> Append(acc.value, <<entries[i][1], transformed.value>>),
             calls |-> Append(acc.calls, call) \o transformed.calls]))))

transform_object(entries, replacer, path) ==
    transform_object_from(entries, replacer, path, 1,
                          [value |-> <<>>, calls |-> <<>>])

\* The loop of transform_array from element i (index i - 1) on.
RECURSIVE transform_array_from(_, _, _, _, _)
transform_array_from(values, replacer, path, i, acc) ==
    IF i > Len(values) THEN acc
    ELSE
    Let(Append(path, PathIndex(i - 1)), LAMBDA next_path :
    Let(ReplacerCall(replacer, NatDigits(i - 1), values[i], next_path),
        LAMBDA call :
        IF ~call.result.some
        THEN transform_array_from(values, replacer, path, i + 1,
                 [acc EXCEPT !.calls = Append(@, call)])
        ELSE
    Let(transform_children(normalize_json_value(call.result.v), replacer,
                           next_path), LAMBDA transformed :
        transform_array_from(values, replacer, path, i + 1,
            [value |-> Append(acc.value, transformed.value),
             calls |-> Append(acc.calls, call) \o transformed.calls]))))

transform_array_unvisited(values, replacer, path) ==
    [value |-> values, calls |-> <<>>]

transform_array(values, replacer, path) ==
    transform_array_from(values, replacer, path, 1,
                         [value |-> <<>>, calls |-> <<>>])

transform_children(value, replacer, path) ==
    IF value.t = "obj"
    THEN Let(transform_object(value.entries, replacer, path), LAMBDA object :
             [value |-> Obj(object.value), calls |-> object.calls])
    ELSE IF value.t = "arr"
    THEN Let(transform_array(value.items, replacer, path), LAMBDA array :
             [value |-> Arr(array.value), calls |-> array.calls])
    ELSE [value |-> value, calls |-> <<>>]

apply_replacer(root, replacer) ==
    Let(ReplacerCall(replacer, <<>>, root, <<>>), LAMBDA call :
    Let(IF call.result.some
        THEN transform_children(normalize_json_value(call.result.v), replacer,
                                <<>>)
        ELSE transform_children(root, replacer, <<>>), LAMBDA transformed :
        [value |-> transformed.value,
         calls |-> <<call>> \o transformed.calls]))

-----------------------------------------------------------------------------
(* encode/mod.rs *)

encode_lines(input, e) ==
    Let(normalize_json_value(input), LAMBDA normalized :
        encode_json_value(IF e.replacer.some
                          THEN apply_replacer(normalized, e.replacer.v).value
                          ELSE normalized, e))

encode(input, e) == Join(encode_lines(input, e), NEWLINE)

RECURSIVE emit_events(_)
emit_events(value) ==
    IF IsPrimitive(value) THEN <<Primitive(value)>>
    ELSE IF value.t = "arr"
    THEN <<StartArray(Len(value.items))>>
         \o Flatten([i \in 1..Len(value.items) |-> emit_events(value.items[i])])
         \o <<EndArray>>
    ELSE <<StartObject>>
         \o Flatten([i \in 1..Len(value.entries) |->
                <<Key(value.entries[i][1],
                      ~is_valid_unquoted_key(value.entries[i][1]))>>
                \o emit_events(value.entries[i][2])])
         \o <<EndObject>>

encode_stream_events(input) == emit_events(normalize_json_value(input))

-----------------------------------------------------------------------------
(* encode/async_encode.rs.  E is the AsyncEncodeEventStream: stack holds    *)
(* the EncodeStackFrames (an iterator is the sequence of what it has not    *)
(* handed out yet), started and root are the struct's.  A call returns the  *)
(* new stream as .E and the Option<JsonStreamEvent> as .item.               *)

ObjectFrame(entries, pending_value) ==
    [f |-> "Object", entries |-> entries, pending_value |-> pending_value]

ArrayFrame(items, length, emitted_start) ==
    [f |-> "Array", items |-> items, length |-> length,
     emitted_start |-> emitted_start]

\* AsyncEncodeEventStream::new, without replacer
NewAsyncEncodeEventStream(input) ==
    [stack |-> <<>>, started |-> FALSE,
     root |-> Some(normalize_json_value(input))]

RECURSIVE next_event(_)

start_value(E, value) ==
    IF IsPrimitive(value) THEN [E |-> E, item |-> Some(Primitive(value))]
    ELSE IF value.t = "arr"
    THEN next_event([E EXCEPT !.stack =
                        Append(@, ArrayFrame(value.items, Len(value.items),
                                             FALSE))])
    ELSE [E |-> [E EXCEPT !.stack = Append(@, ObjectFrame(value.entries, None))],
          item |-> Some(StartObject)]

next_frame_event_unquoted(E) ==
    LET depth == Len(E.stack)
        frame == E.stack[depth]
        popped == [E EXCEPT !.stack = SubSeq(E.stack, 1, depth - 1)]
    IN  IF depth = 0 THEN [E |-> E, item |-> None]
        ELSE IF frame.f = "Object"
        THEN IF frame.pending_value.some
             THEN start_value([E EXCEPT !.stack[depth].pending_value = None],
                              frame.pending_value.v)
             ELSE IF Len(frame.entries) > 0
             THEN [E |-> [E EXCEPT !.stack[depth] =
                             ObjectFrame(Tail(frame.entries),
                                         Some(frame.entries[1][2]))],
                   item |-> Some(Key(frame.entries[1][1], FALSE))]
             ELSE [E |-> popped, item |-> Some(EndObject)]
        ELSE IF ~frame.emitted_start
        THEN [E |-> [E EXCEPT !.stack[depth].emitted_start = TRUE],
              item |-> Some(StartArray(frame.length))]
        ELSE IF Len(frame.items) > 0
        THEN start_value([E EXCEPT !.stack[depth].items = Tail(@)],
                         frame.items[1])
        ELSE [E |-> popped, item |-> Some(EndArray)]

\* next_event past the handling of the root: the frame on top of the stack.
next_frame_event(E) ==
    LET depth == Len(E.stack)
        frame == E.stack[depth]
        popped == [E EXCEPT !.stack = SubSeq(E.stack, 1, depth - 1)]
    IN  IF depth = 0 THEN [E |-> E, item |-> None]
        ELSE IF frame.f = "Object"
        THEN IF frame.pending_value.some
             THEN start_value([E EXCEPT !.stack[depth].pending_value = None],
                              frame.pending_value.v)
             ELSE IF Len(frame.entries) > 0
             THEN [E |-> [E EXCEPT !.stack[depth] =
                             ObjectFrame(Tail(frame.entries),
                                         Some(frame.entries[1][2]))],
                   item |-> Some(Key(frame.entries[1][1],
                                     ~is_valid_unquoted_key(frame.entries[1][1])))]
             ELSE [E |-> popped, item |-> Some(EndObject)]
        ELSE IF ~frame.emitted_start
        THEN [E |-> [E EXCEPT !.stack[depth].emitted_start = TRUE],
              item |-> Some(StartArray(frame.length))]
        ELSE IF Len(frame.items) > 0
        THEN start_value([E EXCEPT !.stack[depth].items = Tail(@)],
                         frame.items[1])
        ELSE [E |-> popped, item |-> Some(EndArray)]

next_event(E) ==
    IF ~E.started /\ E.root.some
    THEN start_value([E EXCEPT !.started = TRUE, !.root = None], E.root.v)
    ELSE next_frame_event([E EXCEPT !.started = TRUE])

-----------------------------------------------------------------------------

(* decode/async_decode.rs.  A is the AsyncDecodeStream: lines is what the   *)
(* line iterator has not handed out yet, state a DecoderState record, and   *)
(* the other fields are the struct's.  A step returns the new stream as .A  *)
(* and the Result as .r.                                                    *)

Initial == [s |-> "Initial"]

SimpleObject(base_depth) == [s |-> "SimpleObject", base_depth |-> base_depth]

ArrayMode == [s |-> "ArrayMode"]

Finished == [s |-> "Finished"]

\* AsyncDecodeStream::new
NewAsyncDecodeStream(lines) ==
    [lines |-> lines,
     scan_state |-> [line_number |-> 0, blank_lines |-> <<>>],
     event_queue |-> <<>>,
     state |-> Initial,
     context_stack |-> <<>>,
     line_buffer |-> <<>>,
     lines_exhausted |-> FALSE,
     error |-> None,
     last_depth |-> None]

\* Ok(self.event_queue.pop_front())
pop_front(A) ==
    IF Len(A.event_queue) = 0 THEN [A |-> A, r |-> Ok(None)]
    ELSE [A |-> [A EXCEPT !.event_queue = Tail(@)],
          r |-> Ok(Some(Head(A.event_queue)))]

\* parse_line_incremental on the stream's own scan state: the line leaves the
\* iterator, the line number advances and a blank line is recorded.
scan_next_line(A, o) ==
    Let(parse_line_incremental(Head(A.lines), A.scan_state.line_number + 1,
            o.indent, o.strict), LAMBDA parsed :
        [A |-> [A EXCEPT !.lines = Tail(@),
                         !.scan_state =
                             [line_number |-> A.scan_state.line_number + 1,
                              blank_lines |->
                                  IF parsed.ok /\ ~parsed.v.some
                                  THEN Append(@.blank_lines,
                                           BlankLineInfo(Head(A.lines),
                                               A.scan_state.line_number + 1,
                                               o.indent))
                                  ELSE @.blank_lines]],
         r |-> parsed])

is_key_value_line(line) ==
    IF StartsWith(line.content, LIST_ITEM_PREFIX) THEN FALSE
    ELSE IF StartsWith(line.content, <<DOUBLE_QUOTE>>)
    THEN Let(find_closing_quote(line.content, 1), LAMBDA closing :
             closing # 0 /\ Contains(From(line.content, closing + 1), COLON))
    ELSE Contains(line.content, COLON) /\ is_key_value_content(line.content)

process_key_value_line(A, line) ==
    LET to_batch == [A EXCEPT !.state = ArrayMode,
                              !.line_buffer = Append(@, line)]
    IN  IF StartsWith(line.content, LIST_ITEM_PREFIX)
        THEN [A |-> to_batch, r |-> Ok(TRUE)]
        ELSE
    Let(parse_key_token(line.content, 1), LAMBDA token :
        IF ~token.ok THEN [A |-> A, r |-> token]
        ELSE
    Let(Trim(From(line.content, token.v.end)), LAMBDA rest :
        IF Len(rest) = 0 THEN [A |-> to_batch, r |-> Ok(TRUE)]
        ELSE
    Let(parse_primitive_token(rest), LAMBDA primitive :
        [A |-> [A EXCEPT !.event_queue =
                   Append(@, Key(token.v.key, token.v.is_quoted))
                       \o (IF primitive.ok THEN <<Primitive(primitive.v)>>
                           ELSE <<>>)],
         r |-> IF primitive.ok THEN Ok(TRUE) ELSE primitive])))

process_initial_line(A, line) ==
    Let(IF is_array_header_content(line.content)
        THEN parse_array_header_line(line.content, DEFAULT_DELIMITER)
        ELSE Ok(None), LAMBDA header_info :
        IF ~header_info.ok THEN [A |-> A, r |-> header_info]
        ELSE IF header_info.v.some
        THEN [A |-> [A EXCEPT !.state = ArrayMode,
                              !.line_buffer = Append(@, line)],
              r |-> Ok(None)]
        ELSE IF is_key_value_line(line)
        THEN Let(process_key_value_line(
                     [A EXCEPT !.state = SimpleObject(0),
                               !.context_stack = Append(@, 0),
                               !.event_queue = Append(@, StartObject)], line),
                 LAMBDA field :
                 IF ~field.r.ok THEN field
                 ELSE pop_front([field.A EXCEPT
                                    !.last_depth = Some(line.depth)]))
        ELSE Let(parse_primitive_token(Trim(line.content)), LAMBDA primitive :
                 [A |-> [A EXCEPT !.state = Finished],
                  r |-> IF primitive.ok THEN Ok(Some(Primitive(primitive.v)))
                        ELSE primitive]))

\* The while-let loop that closes the nested objects a shallower line ends.
RECURSIVE pop_contexts(_, _, _)
pop_contexts(A, current_depth, base_depth) ==
    LET obj_depth == A.context_stack[Len(A.context_stack)]
    IN  IF Len(A.context_stack) = 0 THEN A
        ELSE IF obj_depth >= current_depth /\ obj_depth > base_depth
        THEN pop_contexts([A EXCEPT !.context_stack = SubSeq(@, 1, Len(@) - 1),
                                    !.event_queue = Append(@, EndObject)],
                          current_depth, base_depth)
        ELSE A

process_simple_object_line(A, line, base_depth) ==
    Let2(IF A.last_depth.some /\ line.depth < A.last_depth.v
         THEN pop_contexts(A, line.depth, base_depth) ELSE A,
         IF is_array_header_content(line.content)
         THEN parse_array_header_line(line.content, DEFAULT_DELIMITER)
         ELSE Ok(None), LAMBDA closed, header_info :
        IF ~header_info.ok THEN [A |-> closed, r |-> header_info]
        ELSE IF header_info.v.some
        THEN pop_front([closed EXCEPT !.state = ArrayMode,
                                      !.line_buffer = Append(@, line)])
        ELSE Let(process_key_value_line(closed, line), LAMBDA field :
                 IF ~field.r.ok THEN field
                 ELSE pop_front([field.A EXCEPT
                                    !.last_depth = Some(line.depth)])))

\* The for loop of batch_decode_remaining that drains the line iterator.
RECURSIVE collect_remaining(_, _)
collect_remaining(A, o) ==
    IF Len(A.lines) = 0 THEN [A |-> A, r |-> Ok(TRUE)]
    ELSE Let(scan_next_line(A, o), LAMBDA scanned :
             IF ~scanned.r.ok THEN scanned
             ELSE collect_remaining(
                      IF scanned.r.v.some
                      THEN [scanned.A EXCEPT !.line_buffer =
                               Append(@, scanned.r.v.v)]
                      ELSE scanned.A, o))

batch_decode_remaining(A, o) ==
    Let(collect_remaining(A, o), LAMBDA collected :
        IF ~collected.r.ok THEN collected
        ELSE
    Let(decode_stream_sync(
            [i \in 1..Len(collected.A.line_buffer) |->
                collected.A.line_buffer[i].raw], o), LAMBDA evs :
        IF ~evs.ok THEN [A |-> collected.A, r |-> evs]
        ELSE pop_front([collected.A EXCEPT !.event_queue = @ \o evs.v,
                                           !.line_buffer = <<>>,
                                           !.context_stack = <<>>,
                                           !.state = Finished])))

finalize_without_empty_object(A, o) ==
    IF Len(A.line_buffer) # 0 \/ A.state = ArrayMode
    THEN batch_decode_remaining(A, o)
    ELSE pop_front([A EXCEPT
             !.event_queue = @ \o [i \in 1..Len(A.context_stack) |-> EndObject],
             !.context_stack = <<>>,
             !.state = Finished])

finalize(A, o) ==
    IF Len(A.line_buffer) # 0 \/ A.state = ArrayMode
    THEN batch_decode_remaining(A, o)
    ELSE pop_front([A EXCEPT
             !.event_queue = @ \o [i \in 1..Len(A.context_stack) |-> EndObject]
                               \o (IF A.state = Initial
                                   THEN <<StartObject, EndObject>> ELSE <<>>),
             !.context_stack = <<>>,
             !.state = Finished])

process_next(A, o) ==
    IF Len(A.event_queue) # 0 THEN pop_front(A)
    ELSE IF A.error.some
    THEN [A |-> [A EXCEPT !.error = None],
          r |-> [ok |-> FALSE, err |-> A.error.v]]
    ELSE IF A.state = Finished THEN [A |-> A, r |-> Ok(None)]
    ELSE IF A.lines_exhausted \/ Len(A.lines) = 0
    THEN finalize([A EXCEPT !.lines_exhausted = TRUE], o)
    ELSE Let(scan_next_line(A, o), LAMBDA scanned :
             IF ~scanned.r.ok THEN scanned
             ELSE IF ~scanned.r.v.some THEN [A |-> scanned.A, r |-> Ok(None)]
             ELSE IF A.state = Initial
             THEN process_initial_line(scanned.A, scanned.r.v.v)
             ELSE IF A.state.s = "SimpleObject"
             THEN process_simple_object_line(scanned.A, scanned.r.v.v,
                      A.state.base_depth)
             ELSE [A |-> [scanned.A EXCEPT !.line_buffer =
                             Append(@, scanned.r.v.v)],
                   r |-> Ok(None)])

\* Stream::poll_next: .item is Some(Ok(event)), Some(Err) or None at the end.
RECURSIVE poll_next(_, _)
poll_next(A, o) ==
    Let(process_next(A, o), LAMBDA step :
        IF ~step.r.ok THEN [A |-> step.A, item |-> Some(step.r)]
        ELSE IF step.r.v.some THEN [A |-> step.A, item |-> Some(Ok(step.r.v.v))]
        ELSE IF step.A.state = Finished /\ Len(step.A.event_queue) = 0
        THEN [A |-> step.A, item |-> None]
        ELSE poll_next(step.A, o))

-----------------------------------------------------------------------------
(* The codec round: a JsonValue is encoded (encode_lines), the lines are    *)
(* decoded into events (decode_stream_sync) and into a value (try_decode),  *)
(* the value is encoded again, and encode_stream_events is run on the       *)
(* original value.                                                          *)

MaxLen == 2

MaxChain == 3

MaxFlatten == 3

\* usize::MAX, the default flatten_depth, at the width of the model's integers
USIZE_MAX == 2147483647

\* All sequences over S of length at most n.
SeqUpTo(S, n) == UNION {[1..m -> S] : m \in 0..n}

KeyA == <<"a">>

KeyB == <<"b">>

KeyC == <<"c">>

KeyD == <<"d">>

KeySpaced == <<"a", " ", "b">>

KeyDotted == <<"a", ".", "b">>

TextX == <<"x">>

TextComma == <<"a", ",", "b">>

TextPipe == <<"a", "|", "b">>

TextColon == <<"a", ":", " ", "b">>

TextBracket == <<"[", "1", "]", ":", " ", "x">>

TextQuote == <<"q", "\"">>

One == NumP(FALSE, 1, 0)

Leaves ==
    {NullP, BoolP(TRUE), One, NumP(TRUE, 15, 1), NumP(TRUE, 0, 0),
     NonFinite,
     StrP(<<>>), StrP(TextX), StrP(TRUE_LITERAL), StrP(<<"0", "5">>),
     StrP(LIST_ITEM_MARKER), StrP(TextComma), StrP(TextColon),
     StrP(TextBracket), StrP(TextQuote), StrP(TextPipe)}

\* The elements arrays and objects are filled with.
Elems ==
    {One, StrP(TextX), StrP(TextBracket), NullP,
     Arr(<<>>), Arr(<<One>>),
     Obj(<<>>), Obj(<<<<KeyA, One>>>>)}

Keys == {KeyA, KeyB, KeySpaced}

Arrays == {Arr(s) : s \in SeqUpTo(Elems, MaxLen)}

HasDistinctKeys(entries) ==
    \A i, j \in 1..Len(entries) : i # j => entries[i][1] # entries[j][1]

Objects ==
    {Obj(s) : s \in {en \in SeqUpTo(Keys \X Elems, MaxLen) :
                         HasDistinctKeys(en)}}

ChainKeys == <<KeyA, KeyB, KeyC, KeyD>>

\* The single-entry chain {k1: {k2: ... {kn: leaf}}} over keys[i..n].
RECURSIVE Chain(_, _, _, _)
Chain(keys, i, n, leaf) ==
    IF i > n THEN leaf ELSE Obj(<<<<keys[i], Chain(keys, i + 1, n, leaf)>>>>)

ChainLeaves ==
    Leaves \cup {Arr(<<>>), Arr(<<One, StrP(TextX)>>), Obj(<<>>),
                 Arr(<<Obj(<<<<KeyA, One>>>>)>>)}

Chains ==
    {Chain(ChainKeys, 1, n, leaf) : n \in 1..MaxChain, leaf \in ChainLeaves}

\* Objects in which a dotted key meets a foldable sibling, and list items
\* whose first field is itself an array.
Mixed ==
    {Obj(<<<<KeyDotted, One>>, <<KeyA, Obj(<<<<KeyC, One>>>>)>>>>),
     Obj(<<<<KeySpaced, Arr(<<One>>)>>>>),
     Arr(<<Obj(<<<<KeyA, Arr(<<Obj(<<<<KeyB, One>>>>)>>)>>,
                 <<KeyC, StrP(TextX)>>>>)>>),
     Arr(<<Obj(<<<<KeyA, Arr(<<Arr(<<>>), One>>)>>>>), Arr(<<>>)>>),
     Arr(<<Obj(<<<<KeySpaced, One>>, <<KeyC, StrP(TextX)>>>>),
           Obj(<<<<KeyC, NullP>>, <<KeySpaced, StrP(TextComma)>>>>)>>)}

Values == Leaves \cup Arrays \cup Objects \cup Chains \cup Mixed

\* EncodeOptions and DecodeOptions of one run; expand_paths matches
\* key_folding, and the decoder is given the encoder's indent.
Options(key_folding, flatten_depth, delimiter) ==
    [indent |-> 2, delimiter |-> delimiter, key_folding |-> key_folding,
     flatten_depth |-> flatten_depth, replacer |-> None, strict |-> TRUE,
     expand_paths |-> key_folding]

DefaultOptions == Options("off", USIZE_MAX, DEFAULT_DELIMITER)

CodecOptions ==
    {DefaultOptions, Options("off", USIZE_MAX, PIPE)}
    \cup {Options("safe", fd, DEFAULT_DELIMITER) :
              fd \in (0..MaxFlatten) \cup {USIZE_MAX}}

Idle ==
    /\ toon = <<>>
    /\ scan = None
    /\ sync = None
    /\ decoded = None
    /\ recoded = None
    /\ emitted = None
    /\ stream = None
    /\ yielded = <<>>
    /\ replaced = None
    /\ calls = <<>>
    /\ built = None

Init ==
    /\ pc = "value"
    /\ doc \in Values
    /\ cfg \in CodecOptions
    /\ Idle

\* encode_lines(doc, cfg)
EncodeLines ==
    /\ pc = "value"
    /\ toon' = Result(LAMBDA u : encode_lines(doc, cfg))
    /\ pc' = "lines"
    /\ UNCHANGED <<doc, cfg, scan, sync, decoded, recoded, emitted, stream,
                   yielded, replaced, calls, built>>

\* decode_stream_sync(toon, cfg)
DecodeStream ==
    /\ pc = "lines"
    /\ sync' = Some(Result(LAMBDA u : decode_stream_sync(toon, cfg)))
    /\ pc' = "events"
    /\ UNCHANGED <<doc, cfg, toon, scan, decoded, recoded, emitted, stream,
                   yielded, replaced, calls, built>>

\* try_decode(encode(doc, cfg), cfg): the lines joined with "\n"
Decode ==
    /\ pc = "events"
    /\ decoded' = Some(Result(LAMBDA u :
                          try_decode(Join(toon, NEWLINE), cfg)))
    /\ pc' = "decoded"
    /\ UNCHANGED <<doc, cfg, toon, scan, sync, recoded, emitted, stream,
                   yielded, replaced, calls, built>>

\* encode_lines(decoded value, cfg), when the decode succeeded
Reencode ==
    /\ pc = "decoded"
    /\ recoded' = IF decoded.v.ok
                  THEN Some(Result(LAMBDA u :
                                encode_lines(decoded.v.v, cfg)))
                  ELSE None
    /\ pc' = "recoded"
    /\ UNCHANGED <<doc, cfg, toon, scan, sync, decoded, emitted, stream,
                   yielded, replaced, calls, built>>

\* encode_stream_events(doc)
EncodeStreamEvents ==
    /\ pc = "recoded"
    /\ emitted' = Some(Result(LAMBDA u : encode_stream_events(doc)))
    /\ pc' = "done"
    /\ UNCHANGED <<doc, cfg, toon, scan, sync, decoded, recoded, stream,
                   yielded, replaced, calls, built>>

Next == EncodeLines \/ DecodeStream \/ Decode \/ Reencode \/ EncodeStreamEvents

Spec == Init /\ [][Next]_vars

-----------------------------------------------------------------------------
(* Decoding a TOON document: the lines are scanned (parse_lines_sync),      *)
(* decoded into events (decode_stream_sync) and into a value (try_decode).  *)
(* doc describes the document and toon is its text.                         *)

MaxDeclared == 2

MaxRows == 3

MaxWidth == 3

MaxIndent == 3

\* resolve_decode_options
DecodeOptions(indent, strict, expand_paths) ==
    [indent |-> indent, strict |-> strict, expand_paths |-> expand_paths]

ItemsKey == <<"i", "t", "e", "m", "s">>

QuotedDottedKey == <<DOUBLE_QUOTE>> \o KeyDotted \o <<DOUBLE_QUOTE>>

\* An array header declaring `declared` elements, followed by Len(rows) of
\* them: inline values, tabular rows of rows[i].width values under the
\* fields a and b, or list items that are "- x" ("value") or a bare "-".
Row(item, width) == [item |-> item, width |-> width]

ArrayDoc(form, keyed, declared, rows) ==
    [kind |-> "array", form |-> form, keyed |-> keyed, declared |-> declared,
     rows |-> rows]

InlineDocs ==
    {ArrayDoc("inline", keyed, declared, rows) :
        keyed \in BOOLEAN, declared \in 0..MaxDeclared,
        rows \in SeqUpTo({Row("value", 1)}, MaxRows)}

TabularDocs ==
    {ArrayDoc("tabular", keyed, declared, rows) :
        keyed \in BOOLEAN, declared \in 0..MaxDeclared,
        rows \in SeqUpTo({Row("row", w) : w \in 1..MaxWidth}, MaxRows)}

ListDocs ==
    {ArrayDoc("list", keyed, declared, rows) :
        keyed \in BOOLEAN, declared \in 0..MaxDeclared,
        rows \in SeqUpTo({Row("value", 1), Row("bare", 0)}, MaxRows)}

ArrayDocs == InlineDocs \cup TabularDocs \cup ListDocs

TabularFields == <<KeyA, KeyB>>

ArrayHeader(d) ==
    (IF d.keyed THEN ItemsKey ELSE <<>>)
    \o <<OPEN_BRACKET>> \o NatDigits(d.declared) \o <<CLOSE_BRACKET>>
    \o (IF d.form = "tabular"
        THEN <<OPEN_BRACE>> \o Join(TabularFields, COMMA) \o <<CLOSE_BRACE>>
        ELSE <<>>)
    \o <<COLON>>

\* The row 1,2,...,w
RowText(w) == Join([i \in 1..w |-> NatDigits(i)], COMMA)

ArrayText(d) ==
    IF d.form = "inline"
    THEN <<ArrayHeader(d)
           \o (IF Len(d.rows) = 0 THEN <<>>
               ELSE <<SPACE>>
                    \o Join([i \in 1..Len(d.rows) |-> TextX], COMMA))>>
    ELSE <<ArrayHeader(d)>>
         \o [i \in 1..Len(d.rows) |->
                Spaces(2)
                \o (IF d.form = "tabular" THEN RowText(d.rows[i].width)
                    ELSE IF d.rows[i].item = "bare" THEN LIST_ITEM_MARKER
                    ELSE LIST_ITEM_PREFIX \o TextX)]

\* Documents whose dotted key a.b is written in double quotes, in each
\* place a key can stand; with `sibling` the unquoted dotted key a.c follows.
QuotedForms ==
    {"plain", "nested", "inline_header", "list_header", "tabular_header",
     "tabular_field", "list_item"}

QuotedDocs ==
    {[kind |-> "quoted", form |-> form, sibling |-> sibling] :
        form \in QuotedForms, sibling \in BOOLEAN}

QuotedText(d) ==
    (CASE d.form = "plain" -> <<QuotedDottedKey \o <<COLON, SPACE, "1">>>>
       [] d.form = "nested" ->
              <<QuotedDottedKey \o <<COLON>>,
                Spaces(2) \o <<"c", COLON, SPACE, "1">>>>
       [] d.form = "inline_header" ->
              <<QuotedDottedKey
                \o <<OPEN_BRACKET, "2", CLOSE_BRACKET, COLON, SPACE,
                     "x", COMMA, "y">>>>
       [] d.form = "list_header" ->
              <<QuotedDottedKey \o <<OPEN_BRACKET, "1", CLOSE_BRACKET, COLON>>,
                Spaces(2) \o LIST_ITEM_PREFIX \o TextX>>
       [] d.form = "tabular_header" ->
              <<QuotedDottedKey
                \o <<OPEN_BRACKET, "1", CLOSE_BRACKET, OPEN_BRACE, "c",
                     CLOSE_BRACE, COLON>>,
                Spaces(2) \o <<"1">>>>
       [] d.form = "tabular_field" ->
              <<ItemsKey \o <<OPEN_BRACKET, "1", CLOSE_BRACKET, OPEN_BRACE>>
                \o QuotedDottedKey \o <<CLOSE_BRACE, COLON>>,
                Spaces(2) \o <<"1">>>>
       [] d.form = "list_item" ->
              <<ItemsKey \o <<OPEN_BRACKET, "1", CLOSE_BRACKET, COLON>>,
                Spaces(2) \o LIST_ITEM_PREFIX \o QuotedDottedKey
                \o <<COLON, SPACE, "1">>>>)
    \o (IF d.sibling THEN <<<<"a", DOT, "c", COLON, SPACE, "2">>>> ELSE <<>>)

\* The line a: followed by a line with the leading whitespace `lead`, which
\* is blank or holds the field b: 1.
IndentDocs ==
    {[kind |-> "indent", lead |-> lead, blank |-> blank] :
        lead \in SeqUpTo({SPACE, TAB}, MaxIndent), blank \in BOOLEAN}

IndentText(d) ==
    <<<<"a", COLON>>,
      d.lead \o (IF d.blank THEN <<>> ELSE <<"b", COLON, SPACE, "1">>)>>

\* Array blocks whose declared length equals the elements present, with a
\* blank line (empty or spaces only) put after line `at` of the base text.
\* BlankBlock gives the first and last content line of the base's outermost
\* array block.
BlankBases ==
    {"tabular", "tabular_sibling", "root_tabular", "list", "list_sibling",
     "root_list", "item_fields", "item_last", "item_nested", "item_tabular",
     "item_list"}

TabularHeader(key, n) ==
    key \o <<OPEN_BRACKET>> \o NatDigits(n)
    \o <<CLOSE_BRACKET, OPEN_BRACE, "a", COMMA, "b", CLOSE_BRACE, COLON>>

ListHeader(key, n) ==
    key \o <<OPEN_BRACKET>> \o NatDigits(n) \o <<CLOSE_BRACKET, COLON>>

FieldLine(key, digit) == key \o <<COLON, SPACE, digit>>

BlankBaseText(base) ==
    CASE base = "tabular" ->
             <<TabularHeader(ItemsKey, 2),
               Spaces(2) \o RowText(2), Spaces(2) \o RowText(2)>>
      [] base = "tabular_sibling" ->
             <<TabularHeader(ItemsKey, 2),
               Spaces(2) \o RowText(2), Spaces(2) \o RowText(2),
               FieldLine(KeyB, "1")>>
      [] base = "root_tabular" ->
             <<TabularHeader(<<>>, 3),
               Spaces(2) \o RowText(2), Spaces(2) \o RowText(2),
               Spaces(2) \o RowText(2)>>
      [] base = "list" ->
             <<ListHeader(ItemsKey, 2),
               Spaces(2) \o LIST_ITEM_PREFIX \o TextX,
               Spaces(2) \o LIST_ITEM_MARKER>>
      [] base = "list_sibling" ->
             <<ListHeader(ItemsKey, 2),
               Spaces(2) \o LIST_ITEM_PREFIX \o TextX,
               Spaces(2) \o LIST_ITEM_PREFIX \o TextX,
               FieldLine(KeyB, "1")>>
      [] base = "root_list" ->
             <<ListHeader(<<>>, 3),
               Spaces(2) \o LIST_ITEM_PREFIX \o TextX,
               Spaces(2) \o LIST_ITEM_PREFIX \o TextX,
               Spaces(2) \o LIST_ITEM_PREFIX \o TextX>>
      [] base = "item_fields" ->
             <<ListHeader(ItemsKey, 2),
               Spaces(2) \o LIST_ITEM_PREFIX \o FieldLine(KeyA, "1"),
               Spaces(4) \o FieldLine(KeyB, "2"),
               Spaces(2) \o LIST_ITEM_PREFIX \o FieldLine(KeyA, "1")>>
      [] base = "item_last" ->
             <<ListHeader(ItemsKey, 1),
               Spaces(2) \o LIST_ITEM_PREFIX \o FieldLine(KeyA, "1"),
               Spaces(4) \o FieldLine(KeyB, "2")>>
      [] base = "item_nested" ->
             <<ListHeader(ItemsKey, 1),
               Spaces(2) \o LIST_ITEM_PREFIX \o KeyA \o <<COLON>>,
               Spaces(6) \o FieldLine(KeyC, "1"),
               Spaces(4) \o FieldLine(KeyB, "2")>>
      [] base = "item_tabular" ->
             <<ListHeader(ItemsKey, 1),
               Spaces(2) \o LIST_ITEM_PREFIX \o TabularHeader(KeyD, 2),
               Spaces(6) \o RowText(2), Spaces(6) \o RowText(2),
               Spaces(4) \o FieldLine(KeyB, "2")>>
      [] base = "item_list" ->
             <<ListHeader(ItemsKey, 1),
               Spaces(2) \o LIST_ITEM_PREFIX \o ListHeader(<<>>, 2),
               Spaces(4) \o LIST_ITEM_PREFIX \o TextX,
               Spaces(4) \o LIST_ITEM_PREFIX \o TextX>>

BlankBlock(base) ==
    CASE base \in {"tabular_sibling", "list_sibling"} -> <<2, 3>>
      [] OTHER -> <<2, Len(BlankBaseText(base))>>

BlankFills == {<<>>, Spaces(3)}

BlankDocs ==
    UNION {{[kind |-> "blank", base |-> base, at |-> at, fill |-> fill] :
               at \in 0..Len(BlankBaseText(base)), fill \in BlankFills} :
           base \in BlankBases}

BlankText(d) ==
    LET base == BlankBaseText(d.base)
    IN  SubSeq(base, 1, d.at) \o <<d.fill>> \o SubSeq(base, d.at + 1, Len(base))

\* Lines whose bracket segment is not an array length, in each place an
\* array header can stand.
BadLengths == {<<"a", "b", "c">>, <<"-", "1">>, <<"1", "x">>, <<>>}

LengthPlaces == {"field", "root", "list", "tabular", "item"}

LengthDocs ==
    {[kind |-> "length", seg |-> seg, place |-> place] :
        seg \in BadLengths, place \in LengthPlaces}

BadHeader(key, seg) == key \o <<OPEN_BRACKET>> \o seg \o <<CLOSE_BRACKET>>

LengthText(d) ==
    CASE d.place = "field" ->
             <<BadHeader(ItemsKey, d.seg) \o <<COLON, SPACE>> \o TextX>>
      [] d.place = "root" ->
             <<BadHeader(<<>>, d.seg) \o <<COLON, SPACE>> \o TextX>>
      [] d.place = "list" ->
             <<BadHeader(ItemsKey, d.seg) \o <<COLON>>,
               Spaces(2) \o LIST_ITEM_PREFIX \o TextX>>
      [] d.place = "tabular" ->
             <<BadHeader(ItemsKey, d.seg)
               \o <<OPEN_BRACE, "a", COMMA, "b", CLOSE_BRACE, COLON>>,
               Spaces(2) \o RowText(2)>>
      [] d.place = "item" ->
             <<ListHeader(ItemsKey, 1),
               Spaces(2) \o LIST_ITEM_PREFIX
               \o BadHeader(KeyD, d.seg) \o <<COLON, SPACE>> \o TextX>>

\* Documents with malformed grammar: a string or a quoted key without its
\* closing quote, text after a closing quote, a field line without a colon.
MalformedForms ==
    {"unterminated_value", "unterminated_key", "after_quote", "missing_colon"}

MalformedDocs == {[kind |-> "malformed", form |-> form] : form \in MalformedForms}

MalformedText(d) ==
    <<FieldLine(KeyA, "1"),
      CASE d.form = "unterminated_value" ->
               KeyB \o <<COLON, SPACE, DOUBLE_QUOTE>> \o TextX
        [] d.form = "unterminated_key" ->
               <<DOUBLE_QUOTE>> \o KeyB \o <<COLON, SPACE, "1">>
        [] d.form = "after_quote" ->
               KeyB \o <<COLON, SPACE, DOUBLE_QUOTE>> \o TextX
               \o <<DOUBLE_QUOTE>> \o TextX
        [] d.form = "missing_colon" -> KeyB>>

\* The longest document of free lines.
MaxLines == 3

\* Documents of up to MaxLines lines drawn freely from DocLines: fields,
\* array headers, rows and list items at several depths, well placed or not.
DocLines ==
    {FieldLine(KeyA, "1"),
     KeyB \o <<COLON>>,
     Spaces(2) \o FieldLine(KeyC, "2"),
     Spaces(4) \o FieldLine(KeyD, "3"),
     ListHeader(<<>>, 2) \o <<SPACE>> \o TextX \o <<COMMA>> \o TextX,
     ListHeader(<<"e">>, 1) \o <<SPACE>> \o TextX,
     ListHeader(<<"e">>, 2),
     ListHeader(<<>>, 1),
     TabularHeader(<<"e">>, 1),
     Spaces(2) \o RowText(2),
     Spaces(2) \o LIST_ITEM_PREFIX \o TextX,
     Spaces(2) \o LIST_ITEM_PREFIX \o FieldLine(KeyA, "1"),
     Spaces(2) \o LIST_ITEM_MARKER,
     Spaces(2) \o LIST_ITEM_PREFIX \o ListHeader(<<>>, 1) \o <<SPACE>> \o TextX,
     TextX,
     <<>>}

LineDocs == {[kind |-> "lines", lines |-> lines] : lines \in SeqUpTo(DocLines, MaxLines)}

DocumentText(d) ==
    CASE d.kind = "array" -> ArrayText(d)
      [] d.kind = "quoted" -> QuotedText(d)
      [] d.kind = "indent" -> IndentText(d)
      [] d.kind = "blank" -> BlankText(d)
      [] d.kind = "length" -> LengthText(d)
      [] d.kind = "malformed" -> MalformedText(d)
      [] d.kind = "lines" -> d.lines

IndentSizes == {0, 1, 2}

\* The documents with the decode options they are decoded under.
DecodeRuns ==
    (ArrayDocs \X {DecodeOptions(2, strict, "off") : strict \in BOOLEAN})
    \cup (QuotedDocs \X {DecodeOptions(2, strict, expand_paths) :
                            strict \in BOOLEAN, expand_paths \in {"off", "safe"}})
    \cup (IndentDocs \X {DecodeOptions(indent, strict, "off") :
                            indent \in IndentSizes, strict \in BOOLEAN})
    \cup (BlankDocs \X {DecodeOptions(2, strict, "off") : strict \in BOOLEAN})
    \cup (LengthDocs \X {DecodeOptions(2, strict, "off") : strict \in BOOLEAN})
    \cup (MalformedDocs \X {DecodeOptions(2, strict, "off") :
                               strict \in BOOLEAN})
    \cup (LineDocs \X {DecodeOptions(2, strict, "off") : strict \in BOOLEAN})

InitDecode ==
    /\ pc = "text"
    /\ \E run \in DecodeRuns :
          /\ doc = run[1]
          /\ cfg = run[2]
          /\ toon = DocumentText(run[1])
    /\ scan = None
    /\ sync = None
    /\ decoded = None
    /\ recoded = None
    /\ emitted = None
    /\ stream = None
    /\ yielded = <<>>
    /\ replaced = None
    /\ calls = <<>>
    /\ built = None

\* parse_lines_sync(toon, cfg.indent, cfg.strict)
ParseLines ==
    /\ pc = "text"
    /\ scan' = Some(Result(LAMBDA u :
                       parse_lines_sync(toon, cfg.indent, cfg.strict)))
    /\ pc' = "lines"
    /\ UNCHANGED <<doc, cfg, toon, sync, decoded, recoded, emitted, stream,
                   yielded, replaced, calls, built>>

NextDecode == ParseLines \/ DecodeStream \/ Decode

SpecDecode == InitDecode /\ [][NextDecode]_vars

-----------------------------------------------------------------------------
(* AsyncDecodeStream over the lines toon: the stream is polled until it     *)
(* ends, each item going to yielded, and decode_stream_sync decodes the     *)
(* same lines.                                                              *)

MaxPolls == 12

StreamLines ==
    {<<"a", COLON, SPACE, "1">>,
     <<"b", COLON>>,
     Spaces(2) \o <<"c", COLON, SPACE, "2">>,
     <<TAB, "d", COLON, SPACE, "3">>,
     <<OPEN_BRACKET, "1", CLOSE_BRACKET, COLON, SPACE, "x">>,
     <<"e", OPEN_BRACKET, "2", CLOSE_BRACKET, COLON, SPACE, "x">>,
     Spaces(2) \o LIST_ITEM_PREFIX \o TextX,
     TextX,
     <<>>}

StreamDocs == SeqUpTo(StreamLines, MaxLines)

\* Lines that are empty or hold whitespace only, and the documents made of
\* them alone.
BlankLines ==
    {<<>>, Spaces(3), <<TAB>>, <<SPACE, TAB>>, <<CARRIAGE_RETURN>>}

BlankOnlyDocs == SeqUpTo(BlankLines, MaxLines)

InitStream ==
    /\ pc = "stream"
    /\ doc = NullP
    /\ toon \in StreamDocs \cup BlankOnlyDocs
    /\ cfg \in {DecodeOptions(2, strict, "off") : strict \in BOOLEAN}
    /\ stream = Some(NewAsyncDecodeStream(toon))
    /\ scan = None
    /\ sync = None
    /\ decoded = None
    /\ recoded = None
    /\ emitted = None
    /\ yielded = <<>>
    /\ replaced = None
    /\ calls = <<>>
    /\ built = None

\* Stream::poll_next: an item is appended to yielded, None ends the stream.
Poll ==
    /\ pc = "stream"
    /\ Len(yielded) < MaxPolls
    /\ \E polled \in {Result(LAMBDA u : poll_next(stream.v, cfg))} :
           /\ stream' = Some(polled.A)
           /\ yielded' = IF polled.item.some THEN Append(yielded, polled.item.v)
                         ELSE yielded
           /\ pc' = IF polled.item.some THEN "stream" ELSE "lines"
    /\ UNCHANGED <<doc, cfg, toon, scan, sync, decoded, recoded, emitted,
                   replaced, calls, built>>

NextStream == Poll \/ DecodeStream

SpecStream == InitStream /\ [][NextStream]_vars

-----------------------------------------------------------------------------
(* Key folding: an object that holds the target entry t, whose value is a   *)
(* chain of `n` segments t, mid, v.. ending in `leaf`, is encoded and then  *)
(* decoded. The target stands at the root, in the object x beside y, or in  *)
(* the object p.q beside y; `extra` adds a dotted key beside the target or  *)
(* at the root.                                                             *)

KeyT == <<"t">>

KeyU == <<"u">>

KeyV == <<"v">>

KeyX == <<"x">>

KeyY == <<"y">>

KeyP == <<"p">>

KeyQ == <<"q">>

FoldContexts == {"root", "nested", "folded"}

FoldLeaves == {One, Obj(<<>>), Obj(<<<<KeyA, One>>, <<KeyB, One>>>>)}

ExtraKeys ==
    {Join(<<KeyT, KeyU>>, DOT), Join(<<KeyT, KeyU, KeyV>>, DOT),
     Join(<<KeyX, KeyT, KeyU>>, DOT), Join(<<KeyP, KeyQ, KeyT, KeyU>>, DOT),
     Join(<<KeyP, KeyQ>>, DOT)}

FoldExtras ==
    {[at |-> "none", key |-> <<>>]}
    \cup {[at |-> at, key |-> key] : at \in {"sibling", "root"}, key \in ExtraKeys}

FoldDocs ==
    {[kind |-> "fold", context |-> context, n |-> n, mid |-> mid,
      leaf |-> leaf, extra |-> extra] :
        context \in FoldContexts, n \in 1..MaxChain, mid \in {KeyU, KeySpaced},
        leaf \in FoldLeaves, extra \in FoldExtras}

\* The target entry's value, and the entries beside it.
FoldKeys(d) == <<KeyT, d.mid>> \o [i \in 1..MaxChain |-> KeyV]

FoldTarget(d) == Chain(FoldKeys(d), 2, d.n, d.leaf)

ExtraEntry(d, at) ==
    IF d.extra.at = at THEN <<<<d.extra.key, StrP(TextX)>>>> ELSE <<>>

FoldParent(d) ==
    <<<<KeyY, One>>, <<KeyT, FoldTarget(d)>>>> \o ExtraEntry(d, "sibling")

FoldRoot(d) ==
    CASE d.context = "root" ->
             <<<<KeyT, FoldTarget(d)>>>>
             \o ExtraEntry(d, "sibling") \o ExtraEntry(d, "root")
      [] d.context = "nested" ->
             ExtraEntry(d, "root") \o <<<<KeyX, Obj(FoldParent(d))>>>>
      [] d.context = "folded" ->
             ExtraEntry(d, "root")
             \o <<<<KeyP, Obj(<<<<KeyQ, Obj(FoldParent(d))>>>>)>>>>

FoldValue(d) == Obj(FoldRoot(d))

FoldOptions == CodecOptions \cup {Options("safe", MaxFlatten + 1, DEFAULT_DELIMITER)}

InitFold ==
    /\ pc = "fold"
    /\ doc \in FoldDocs
    /\ cfg \in FoldOptions
    /\ Idle

\* encode_lines(the document's value, cfg)
EncodeFold ==
    /\ pc = "fold"
    /\ toon' = Result(LAMBDA u : encode_lines(FoldValue(doc), cfg))
    /\ pc' = "lines"
    /\ UNCHANGED <<doc, cfg, scan, sync, decoded, recoded, emitted, stream,
                   yielded, replaced, calls, built>>

NextFold == EncodeFold \/ DecodeStream \/ Decode

SpecFold == InitFold /\ [][NextFold]_vars

-----------------------------------------------------------------------------

(* The replacer: apply_replacer runs on the normalized value with one of    *)
(* the closures of Replacers, then the value is encoded with that replacer  *)
(* configured and the lines are decoded.                                    *)

KeyZero == <<"0">>

ReplaceElems ==
    {One, StrP(TextX), NumP(TRUE, 0, 0), Arr(<<One>>),
     Obj(<<<<KeyA, One>>>>),
     Obj(<<<<KeyA, Obj(<<<<KeyB, One>>>>)>>, <<KeyB, Arr(<<StrP(TextX)>>)>>>>)}

ReplaceValues ==
    {One, StrP(TextX)}
    \cup {Arr(s) : s \in SeqUpTo(ReplaceElems, MaxLen)}
    \cup {Obj(s) : s \in {en \in SeqUpTo({KeyA, KeyB, KeyZero} \X ReplaceElems,
                                         MaxLen) : HasDistinctKeys(en)}}

ReplaceOptions ==
    {[DefaultOptions EXCEPT !.replacer = Some(r)] : r \in Replacers}

InitReplace ==
    /\ pc = "replace"
    /\ doc \in ReplaceValues
    /\ cfg \in ReplaceOptions
    /\ Idle

\* apply_replacer(normalize_json_value(doc), cfg.replacer), as encode_lines
\* calls it
ApplyReplacer ==
    /\ pc = "replace"
    /\ \E applied \in {Result(LAMBDA u :
                              apply_replacer(normalize_json_value(doc),
                                             cfg.replacer.v))} :
           /\ replaced' = Some(applied.value)
           /\ calls' = applied.calls
    /\ pc' = "value"
    /\ UNCHANGED <<doc, cfg, toon, scan, sync, decoded, recoded, emitted,
                   stream, yielded, built>>

NextReplace == ApplyReplacer \/ EncodeLines \/ DecodeStream \/ Decode

SpecReplace == InitReplace /\ [][NextReplace]_vars

-----------------------------------------------------------------------------

(* Path expansion: documents of up to MaxPaths root entries whose keys are  *)
(* dotted paths, plain keys or a quoted dotted key, each with a leaf, an    *)
(* array or a nested object, decoded with expandPaths = safe.               *)

MaxPaths == 3

Two == NumP(FALSE, 2, 0)

PathKeys ==
    {[path |-> <<KeyA>>, quoted |-> FALSE],
     [path |-> <<KeyB>>, quoted |-> FALSE],
     [path |-> <<KeyA, KeyB>>, quoted |-> FALSE],
     [path |-> <<KeyA, KeyB, KeyC>>, quoted |-> FALSE],
     [path |-> <<KeyA, KeyB>>, quoted |-> TRUE]}

PathValueKinds == {"one", "two", "array", "obj_b", "obj_c", "obj_bc"}

PathEntries ==
    {[path |-> k.path, quoted |-> k.quoted, value |-> v] :
        k \in PathKeys, v \in PathValueKinds}

PathDocs ==
    {[kind |-> "paths", entries |-> en] : en \in SeqUpTo(PathEntries, MaxPaths)}

\* The key of an entry as the document writes it.
PathKeyText(en) ==
    IF en.quoted
    THEN <<DOUBLE_QUOTE>> \o Join(en.path, DOT) \o <<DOUBLE_QUOTE>>
    ELSE Join(en.path, DOT)

\* The lines of one entry.
PathEntryLines(en) ==
    CASE en.value = "one" -> <<FieldLine(PathKeyText(en), "1")>>
      [] en.value = "two" -> <<FieldLine(PathKeyText(en), "2")>>
      [] en.value = "array" ->
            <<ListHeader(PathKeyText(en), 1) \o <<SPACE>> \o TextX>>
      [] en.value = "obj_b" ->
            <<PathKeyText(en) \o <<COLON>>, Spaces(2) \o FieldLine(KeyB, "1")>>
      [] en.value = "obj_c" ->
            <<PathKeyText(en) \o <<COLON>>, Spaces(2) \o FieldLine(KeyC, "2")>>
      [] en.value = "obj_bc" ->
            <<PathKeyText(en) \o <<COLON>>,
              Spaces(2) \o FieldLine(Join(<<KeyB, KeyC>>, DOT), "2")>>

RECURSIVE PathLinesFrom(_, _)
PathLinesFrom(entries, i) ==
    IF i > Len(entries) THEN <<>>
    ELSE PathEntryLines(entries[i]) \o PathLinesFrom(entries, i + 1)

PathText(d) == PathLinesFrom(d.entries, 1)

InitExpand ==
    /\ pc = "events"
    /\ doc \in PathDocs
    /\ \E strict \in BOOLEAN : cfg = DecodeOptions(2, strict, "safe")
    /\ toon = PathText(doc)
    /\ scan = None
    /\ sync = None
    /\ decoded = None
    /\ recoded = None
    /\ emitted = None
    /\ stream = None
    /\ yielded = <<>>
    /\ replaced = None
    /\ calls = <<>>
    /\ built = None

NextExpand == Decode

SpecExpand == InitExpand /\ [][NextExpand]_vars

-----------------------------------------------------------------------------

(* The forms of an array: arrays of up to MaxLen elements of ShapeElems, at *)
(* the root or under the key a, are encoded with the comma and the pipe     *)
(* delimiter and the lines are decoded.                                     *)

ShapeElems ==
    {One, StrP(TextX),
     Arr(<<>>), Arr(<<One, Two>>), Arr(<<Arr(<<One>>)>>),
     Obj(<<>>),
     Obj(<<<<KeyA, One>>>>),
     Obj(<<<<KeyA, One>>, <<KeyB, Two>>>>),
     Obj(<<<<KeyB, StrP(TextX)>>, <<KeyA, Two>>>>),
     Obj(<<<<KeyA, One>>, <<KeyC, Two>>>>),
     Obj(<<<<KeyA, Arr(<<One>>)>>>>),
     Obj(<<<<KeyA, One>>, <<KeyA, Two>>>>)}

ShapeArrays == {Arr(s) : s \in SeqUpTo(ShapeElems, MaxLen)}

ShapeDocs == ShapeArrays \cup {Obj(<<<<KeyA, arr>>>>) : arr \in ShapeArrays}

ShapeOptions == {DefaultOptions, Options("off", USIZE_MAX, PIPE)}

InitShape ==
    /\ pc = "value"
    /\ doc \in ShapeDocs
    /\ cfg \in ShapeOptions
    /\ Idle

NextShape == EncodeLines \/ DecodeStream \/ Decode

SpecShape == InitShape /\ [][NextShape]_vars

-----------------------------------------------------------------------------

(* AsyncEncodeEventStream over a value: next_event is called until it has   *)
(* answered None MaxIdleCalls times, each answer going to yielded, and      *)
(* encode_stream_events gives the events of the same value.                 *)

MaxIdleCalls == 2

\* The answers of next_event so far that were None.
IdleCalls == Len(SelectSeq(yielded, LAMBDA item : ~item.some))

InitEvents ==
    /\ pc = "next_event"
    /\ doc \in Values
    /\ cfg = DefaultOptions
    /\ stream = Some(NewAsyncEncodeEventStream(doc))
    /\ toon = <<>>
    /\ scan = None
    /\ sync = None
    /\ decoded = None
    /\ recoded = None
    /\ emitted = None
    /\ yielded = <<>>
    /\ replaced = None
    /\ calls = <<>>
    /\ built = None

\* AsyncEncodeEventStream::next_event, as poll_next calls it
NextEvent ==
    /\ pc = "next_event"
    /\ IdleCalls < MaxIdleCalls
    /\ \E answer \in {Result(LAMBDA u : next_event(stream.v))} :
           /\ stream' = Some(answer.E)
           /\ yielded' = Append(yielded, answer.item)
    /\ UNCHANGED <<pc, doc, cfg, toon, scan, sync, decoded, recoded, emitted,
                   replaced, calls, built>>

\* encode_stream_events(doc), once the stream has been called to its end
EmitEvents ==
    /\ pc = "next_event"
    /\ IdleCalls = MaxIdleCalls
    /\ emitted' = Some(Result(LAMBDA u : encode_stream_events(doc)))
    /\ pc' = "done"
    /\ UNCHANGED <<doc, cfg, toon, scan, sync, decoded, recoded, stream,
                   yielded, replaced, calls, built>>

NextEvents == NextEvent \/ EmitEvents

SpecEvents == InitEvents /\ [][NextEvents]_vars

-----------------------------------------------------------------------------

(* AsyncDecodeStream polled without end: every answer of poll_next goes to  *)
(* yielded, the None answers too, until MaxIdleCalls of them were None.     *)
(* yielded remembers the last MaxAnswers answers.  A consumer polls again   *)
(* as long as it has not seen the end, which is the weak fairness of the    *)
(* steps.                                                                   *)

MaxAnswers == 24

InitPoll ==
    /\ pc = "input"
    /\ doc = NullP
    /\ toon = <<>>
    /\ cfg = DecodeOptions(2, TRUE, "off")
    /\ stream = None
    /\ scan = None
    /\ sync = None
    /\ decoded = None
    /\ recoded = None
    /\ emitted = None
    /\ yielded = <<>>
    /\ replaced = None
    /\ calls = <<>>
    /\ built = None

\* AsyncDecodeStream::new over the lines of a document, strict or not
NewStream ==
    /\ pc = "input"
    /\ toon' \in StreamDocs
    /\ cfg' \in {DecodeOptions(2, strict, "off") : strict \in BOOLEAN}
    /\ stream' = Some(NewAsyncDecodeStream(toon'))
    /\ pc' = "poll"
    /\ UNCHANGED <<doc, scan, sync, decoded, recoded, emitted, yielded,
                   replaced, calls, built>>

\* The last MaxAnswers answers, item being the newest.
Remember(answers, item) ==
    IF Len(answers) < MaxAnswers THEN Append(answers, item)
    ELSE Append(Tail(answers), item)

\* Stream::poll_next, before and after the end of the stream
PollOn ==
    /\ pc = "poll"
    /\ IdleCalls < MaxIdleCalls
    /\ \E polled \in {Result(LAMBDA u : poll_next(stream.v, cfg))} :
           /\ stream' = Some(polled.A)
           /\ yielded' = Remember(yielded, polled.item)
    /\ UNCHANGED <<pc, doc, cfg, toon, scan, sync, decoded, recoded, emitted,
                   replaced, calls, built>>

NextPoll == NewStream \/ PollOn

\* A PollOn step that changes the state is possible: the consumer has not
\* seen the end MaxIdleCalls times, and the poll changes the stream or the
\* answers remembered.
PollEnabled ==
    /\ pc = "poll"
    /\ IdleCalls < MaxIdleCalls
    /\ Let(poll_next(stream.v, cfg), LAMBDA polled :
           \/ Some(polled.A) # stream
           \/ Remember(yielded, polled.item) # yielded)

\* WF_vars(PollOn) written out: after NewStream, PollOn is the only step
\* that changes stream or yielded.
PollFairness == []<>(~PollEnabled) \/ []<><<TRUE>>_<<stream, yielded>>

SpecPoll ==
    InitPoll /\ [][NextPoll]_vars /\ WF_vars(NewStream) /\ PollFairness

-----------------------------------------------------------------------------

(* build_node_from_events on its own: every sequence of up to MaxEvents     *)
(* events of BuildEvents, balanced or not, is handed to the builder.        *)

MaxEvents == 5

BuildEvents ==
    {StartObject, EndObject, StartArray(0), EndArray,
     Key(KeyA, FALSE), Key(KeyB, TRUE), Primitive(One)}

EventDocs ==
    {[kind |-> "events", events |-> evs] : evs \in SeqUpTo(BuildEvents, MaxEvents)}

InitBuild ==
    /\ pc = "stream"
    /\ doc \in EventDocs
    /\ cfg = DecodeOptions(2, TRUE, "off")
    /\ Idle

\* build_node_from_events(doc.events)
BuildNode ==
    /\ pc = "stream"
    /\ built' = Some(Result(LAMBDA u : build_node_from_events(doc.events)))
    /\ pc' = "node"
    /\ UNCHANGED <<doc, cfg, toon, scan, sync, decoded, recoded, emitted,
                   stream, yielded, replaced, calls>>

\* node_to_json of the tree, when one was built
NodeToJson ==
    /\ pc = "node"
    /\ built.v.ok
    /\ decoded' = Some(Ok(Result(LAMBDA u : node_to_json(built.v.v))))
    /\ pc' = "decoded"
    /\ UNCHANGED <<doc, cfg, toon, scan, sync, recoded, emitted, stream,
                   yielded, replaced, calls, built>>

NextBuild == BuildNode \/ NodeToJson

SpecBuild == InitBuild /\ [][NextBuild]_vars

-----------------------------------------------------------------------------

(* The properties of the codec, each checked under the specification that   *)
(* runs the operations it is about.                                         *)

RECURSIVE HasNonFinite(_)
HasNonFinite(v) ==
    IF v.t = "arr" THEN \E i \in 1..Len(v.items) : HasNonFinite(v.items[i])
    ELSE IF v.t = "obj"
    THEN \E i \in 1..Len(v.entries) : HasNonFinite(v.entries[i][2])
    ELSE v = NonFinite

\* Some object inside v has an entry under the key k.
RECURSIVE HasKey(_, _)
HasKey(v, k) ==
    IF v.t = "arr" THEN \E i \in 1..Len(v.items) : HasKey(v.items[i], k)
    ELSE IF v.t = "obj"
    THEN \E i \in 1..Len(v.entries) :
            v.entries[i][1] = k \/ HasKey(v.entries[i][2], k)
    ELSE FALSE

\* C1: for every value free of non-finite numbers, decoding its encoding
\* under the default options succeeds and gives normalize(v): same nesting,
\* same key order, same primitives, whatever the strings hold.
C1_RoundTrip ==
    (decoded.some /\ cfg = DefaultOptions /\ ~HasNonFinite(doc))
        => (decoded.v.ok /\ decoded.v.v = normalize_json_value(doc))

\* The declared length of an array document differs from the number of its
\* elements, or one of its tabular rows from the number of fields.
CountMismatch(d) ==
    \/ Len(d.rows) # d.declared
    \/ /\ d.form = "tabular"
       /\ \E i \in 1..Len(d.rows) : d.rows[i].width # Len(TabularFields)

\* The array a document of ArrayDocs decodes to.
DecodedArray(d, value) ==
    IF d.keyed THEN value.entries[1][2].items ELSE value.items

\* C2: in strict mode decoding fails whenever the element count differs from
\* the declared length or a row's value count from the number of fields; in
\* non-strict mode the same document decodes, an inline array to exactly the
\* values present.
C2_Counts ==
    (decoded.some /\ doc.kind = "array" /\ CountMismatch(doc))
        => IF cfg.strict THEN ~decoded.v.ok
           ELSE /\ decoded.v.ok
                /\ doc.form = "inline"
                       => DecodedArray(doc, decoded.v.v)
                              = [i \in 1..Len(doc.rows) |-> StrP(TextX)]

\* C3: once the stream has ended, the items it yielded are exactly the
\* events decode_stream_sync returns for the same lines and options.
C3_StreamMatchesSync ==
    (pc = "events" /\ sync.v.ok)
        => yielded = [i \in 1..Len(sync.v.v) |-> Ok(sync.v.v[i])]

\* C4: a chain of single-entry objects with identifier keys, encoded with
\* keyFolding=safe at any flattenDepth and decoded with expandPaths=safe, is
\* the chain again (numbers as normalize leaves them).
C4_FoldExpand ==
    (decoded.some /\ cfg.key_folding = "safe" /\ doc \in Chains
     /\ ~HasNonFinite(doc))
        => (decoded.v.ok /\ decoded.v.v = normalize_json_value(doc))

\* C5: with expandPaths=safe the decode succeeds and the key written as
\* "a.b" in double quotes is still the key a.b of the value, in every place
\* a key can stand.
C5_QuotedKeyKept ==
    (decoded.some /\ doc.kind = "quoted" /\ cfg.expand_paths = "safe")
        => (decoded.v.ok /\ HasKey(decoded.v.v, KeyDotted))

\* C6: under the default options encode_stream_events(v) is the event
\* sequence decode_stream_sync returns for encode_lines(v), was_quoted flags
\* and StartArray lengths included.
C6_EventsAgree ==
    (emitted.some /\ cfg = DefaultOptions)
        => (sync.v.ok /\ sync.v.v = emitted.v)

\* C7: the text encode produces decodes under the matching options, and
\* encoding the decoded value gives the same lines.
C7_CanonicalFixpoint ==
    pc \in {"recoded", "done"} => (decoded.v.ok /\ recoded = Some(toon))

\* C8: decode_stream_sync returns an error without events, and an error
\* yielded by the stream is the last item it yields.
C8_AbortAtFirstError ==
    /\ (sync.some /\ ~sync.v.ok) => DOMAIN sync.v = {"ok", "err"}
    /\ \A i \in 1..Len(yielded) : ~yielded[i].ok => i = Len(yielded)

\* The number of leading characters of raw that are in `set`.
LeadingCount(raw, set) ==
    CHOOSE n \in 0..Len(raw) :
        /\ \A i \in 1..n : raw[i] \in set
        /\ n < Len(raw) => raw[n + 1] \notin set

NonBlank(raw) == \E i \in 1..Len(raw) : ~IsWhitespace(raw[i])

\* A tab in the leading whitespace, or an indent that is no multiple of the
\* indent size (any positive indent when the size is 0).
BadIndentation(raw, indent_size) ==
    \/ \E i \in 1..LeadingCount(raw, {SPACE, TAB}) : raw[i] = TAB
    \/ IF indent_size = 0 THEN LeadingCount(raw, {SPACE}) > 0
       ELSE LeadingCount(raw, {SPACE}) % indent_size # 0

\* C9: in strict mode the decode fails when a non-blank line has a tab in
\* its leading whitespace or an indent that is no multiple of indentSize; in
\* non-strict mode the scan rejects no line; and the depth of every scanned
\* line is indent / indentSize, 0 when indentSize is 0.
C9_Indentation ==
    /\ (decoded.some /\ cfg.strict
        /\ \E i \in 1..Len(toon) :
              NonBlank(toon[i]) /\ BadIndentation(toon[i], cfg.indent))
           => ~decoded.v.ok
    /\ (scan.some /\ ~cfg.strict) => scan.v.ok
    /\ (scan.some /\ scan.v.ok)
           => \A i \in 1..Len(scan.v.v.lines) :
                 scan.v.v.lines[i].depth
                     = IF cfg.indent = 0 THEN 0
                       ELSE LeadingCount(scan.v.v.lines[i].raw, {SPACE})
                                \div cfg.indent

\* A strict decode that failed on a line indented with a tab.
C9_Witness ==
    /\ decoded.some /\ cfg.strict /\ ~decoded.v.ok
    /\ doc.kind = "indent" /\ ~doc.blank
    /\ \E i \in 1..Len(doc.lead) : doc.lead[i] = TAB

\* More rows or list items follow the header than it declares.
ExtraLines(d) == d.form \in {"tabular", "list"} /\ Len(d.rows) > d.declared

\* C10: in strict mode a tabular row or list item ("- x" or a bare "-")
\* after the declared number of them makes the decode fail; in non-strict
\* mode the decode succeeds.
C10_NoExtraItems ==
    (decoded.some /\ doc.kind = "array" /\ ExtraLines(doc))
        => (cfg.strict <=> ~decoded.v.ok)

\* The blank line of a "blank" document lies strictly between the first and
\* the last content line of its array block.
InteriorBlank(d) ==
    /\ BlankBlock(d.base)[1] <= d.at
    /\ d.at < BlankBlock(d.base)[2]

\* C11: in strict mode decoding fails when a blank line lies strictly between
\* the first and the last content line of a tabular or list array block (a
\* multi-line list item included); in non-strict mode the document decodes
\* to the value it has with the blank line removed.
C11_BlankLines ==
    (decoded.some /\ doc.kind = "blank") =>
        IF cfg.strict
        THEN InteriorBlank(doc) => ~decoded.v.ok
        ELSE /\ decoded.v.ok
             /\ decoded.v = try_decode_from_lines(BlankBaseText(doc.base), cfg)

C11_Witness ==
    /\ decoded.some
    /\ doc.kind = "blank"
    /\ doc.base = "item_last"
    /\ InteriorBlank(doc)
    /\ cfg.strict
    /\ ~decoded.v.ok

\* C12: a line whose bracket segment holds an invalid array length makes
\* decoding fail, in strict and in non-strict mode alike.
C12_InvalidLength ==
    (decoded.some /\ doc.kind = "length") => ~decoded.v.ok

\* The keys a chain of single-entry objects under `key` gives, at most
\* `limit` of them.
RECURSIVE ChainSegments(_, _, _)
ChainSegments(key, value, limit) ==
    IF limit > 1 /\ value.t = "obj" /\ Len(value.entries) = 1
    THEN <<key>> \o ChainSegments(value.entries[1][1], value.entries[1][2],
                                  limit - 1)
    ELSE <<key>>

EntryKeys(entries) == {entries[i][1] : i \in 1..Len(entries)}

DottedKeys(entries) == {k \in EntryKeys(entries) : Contains(k, DOT)}

\* The folding condition for the entry key: value, with `budget` segments
\* allowed, `siblings` the keys of its object, `root_dotted` the dotted keys
\* of the root object and `path` what precedes the folded key in the name
\* compared with them.
Folds(key, value, siblings, root_dotted, path, budget, e) ==
    LET segments == ChainSegments(key, value, budget)
    IN  /\ e.key_folding = "safe"
        /\ budget >= 2
        /\ Len(segments) >= 2
        /\ \A i \in 1..Len(segments) : is_identifier_segment(segments[i])
        /\ Join(segments, DOT) \notin siblings
        /\ path \o Join(segments, DOT) \notin root_dotted

TargetSiblings(d) ==
    EntryKeys(IF d.context = "root" THEN FoldRoot(d) ELSE FoldParent(d))

\* The key the target entry is to be emitted under.
ExpectedKey(d, path, budget, e) ==
    IF Folds(KeyT, FoldTarget(d), TargetSiblings(d), DottedKeys(FoldRoot(d)),
             path, budget, e)
    THEN Join(ChainSegments(KeyT, FoldTarget(d), budget), DOT)
    ELSE KeyT

\* The lines that start the target entry: they begin with t and are not the
\* line of the extra key.
TargetLines(d, lines) ==
    {i \in 1..Len(lines) :
        /\ StartsWith(TrimStart(lines[i]), KeyT)
        /\ TrimStart(lines[i]) # d.extra.key \o <<COLON, SPACE>> \o TextX}

\* The key the target entry was emitted under: its line up to the colon.
EmittedKey(d, lines) ==
    LET content == TrimStart(lines[CHOOSE i \in TargetLines(d, lines) : TRUE])
    IN  Slice(content, 1, Find(content, COLON, 1) - 1)

\* The object p.q that holds the target is itself emitted under a folded key.
ParentFolds(d, e) ==
    /\ d.context = "folded"
    /\ Folds(KeyP, Obj(<<<<KeyQ, Obj(FoldParent(d))>>>>),
             EntryKeys(FoldRoot(d)), DottedKeys(FoldRoot(d)), <<>>,
             e.flatten_depth, e)

\* The segments left for the target: flattenDepth less the segments of the
\* folded key of the enclosing object.
TargetBudget(d, e) ==
    IF ParentFolds(d, e)
    THEN (IF e.flatten_depth > 2 THEN e.flatten_depth - 2 ELSE 0)
    ELSE e.flatten_depth

\* The path of the keys that enclose the target, ending in a dot.
TargetPath(d) ==
    CASE d.context = "root" -> <<>>
      [] d.context = "nested" -> KeyX \o <<DOT>>
      [] d.context = "folded" -> KeyP \o <<DOT>> \o KeyQ \o <<DOT>>

Children(v) ==
    IF v.t = "obj"
    THEN [i \in 1..Len(v.entries) |->
             [seg |-> PathKey(v.entries[i][1]), key |-> v.entries[i][1],
              value |-> v.entries[i][2]]]
    ELSE IF v.t = "arr"
    THEN [i \in 1..Len(v.items) |->
             [seg |-> PathIndex(i - 1), key |-> NatDigits(i - 1),
              value |-> v.items[i]]]
    ELSE <<>>

CallsAt(path) == {i \in 1..Len(calls) : calls[i].path = path}

CallAt(path) == calls[CHOOSE i \in CallsAt(path) : TRUE]

\* The value whose children follow a call: the normalized replacement, or
\* the root itself when the replacer returned None for the root.
Replacement(call) ==
    IF call.result.some THEN normalize_json_value(call.result.v) ELSE call.value

IsPrefix(p, q) == Len(p) < Len(q) /\ SubSeq(q, 1, Len(p)) = p

\* The output the calls describe: each replacement with the children the
\* replacer kept, in order.
RECURSIVE Rebuilt(_)
Rebuilt(path) ==
    LET v == Replacement(CallAt(path))
        kept == SelectSeq(Children(v),
                    LAMBDA child : CallAt(Append(path, child.seg)).result.some)
    IN  IF v.t = "obj"
        THEN Obj([i \in 1..Len(kept) |->
                     <<kept[i].key, Rebuilt(Append(path, kept[i].seg))>>])
        ELSE IF v.t = "arr"
        THEN Arr([i \in 1..Len(kept) |-> Rebuilt(Append(path, kept[i].seg))])
        ELSE v

\* C14: the replacer is called once for the root and once for each entry and
\* element of the replaced values, a parent before its children; an entry or
\* element it returns None for is absent from the output and none of its
\* descendants is visited.
C14_Replacer ==
    replaced.some =>
        /\ Len(calls) > 0
        /\ calls[1].path = <<>>
        /\ calls[1].key = <<>>
        /\ calls[1].value = normalize_json_value(doc)
        /\ \A i, j \in 1..Len(calls) : calls[i].path = calls[j].path => i = j
        /\ \A i \in 2..Len(calls) :
              \E j \in 1..(i - 1) :
                  /\ calls[j].path = SubSeq(calls[i].path, 1,
                                            Len(calls[i].path) - 1)
                  /\ \E k \in 1..Len(Children(Replacement(calls[j]))) :
                        LET child == Children(Replacement(calls[j]))[k]
                        IN  /\ calls[i].path = Append(calls[j].path, child.seg)
                            /\ calls[i].key = child.key
                            /\ calls[i].value = child.value
        /\ \A j \in 1..Len(calls) :
              IF calls[j].result.some \/ calls[j].path = <<>>
              THEN \A k \in 1..Len(Children(Replacement(calls[j]))) :
                       CallsAt(Append(calls[j].path,
                           Children(Replacement(calls[j]))[k].seg)) # {}
              ELSE \A i \in 1..Len(calls) :
                       ~IsPrefix(calls[j].path, calls[i].path)
        /\ replaced.v = Rebuilt(<<>>)
        /\ pc \in {"lines", "events", "decoded"} =>
               toon = encode_json_value(replaced.v, cfg)
        /\ decoded.some => (decoded.v.ok /\ decoded.v.v = replaced.v)

C14_Witness ==
    /\ decoded.some
    /\ replaced.some
    /\ cfg.replacer = Some("drop_objects")
    /\ \E j \in 1..Len(calls) :
          /\ ~calls[j].result.some
          /\ Len(Children(calls[j].value)) > 0
          /\ Len(calls[j].path) = 1
    /\ \E i \in 1..Len(calls) : Len(calls[i].path) = 2
    /\ decoded.v.ok

\* C15: an input of zero lines, or of blank and whitespace-only lines only,
\* decodes to exactly the events StartObject, EndObject, in decode_stream_sync
\* and in AsyncDecodeStream alike.
C15_EmptyDocument ==
    (pc = "events" /\ \A i \in 1..Len(toon) : Trim(toon[i]) = <<>>) =>
        /\ sync.v = Ok(<<StartObject, EndObject>>)
        /\ yielded = <<Ok(StartObject), Ok(EndObject)>>

C15_Witness ==
    /\ pc = "events"
    /\ cfg.strict
    /\ Len(toon) = MaxLines
    /\ \A i \in 1..Len(toon) : Trim(toon[i]) = <<>>
    /\ toon[2] = <<SPACE, TAB>>
    /\ yielded = <<Ok(StartObject), Ok(EndObject)>>

\* C16: every error decoding returns for a parse error or a strict-mode
\* violation carries the number of a line of the input.
C16_ErrorsCarryLine ==
    (sync.some /\ ~sync.v.ok) => sync.v.err.line \in 1..Len(toon)

\* The events from position i on keep the event grammar: `open` is the stack
\* of open containers, `pending` tells that the top object holds a key that
\* awaits its value, `roots` counts the completed or open top-level values.
RECURSIVE WellFormedFrom(_, _, _, _, _)
WellFormedFrom(evs, i, open, pending, roots) ==
    LET depth == Len(open)
        in_object == depth > 0 /\ open[depth] = "object"
        value_allowed == IF depth = 0 THEN roots = 0
                         ELSE (in_object => pending)
        below == SubSeq(open, 1, depth - 1)
        counted == IF depth = 0 THEN roots + 1 ELSE roots
    IN  IF i > Len(evs) THEN depth = 0 /\ roots = 1
        ELSE CASE evs[i].e = "Key" ->
                      /\ in_object
                      /\ ~pending
                      /\ WellFormedFrom(evs, i + 1, open, TRUE, roots)
               [] evs[i].e = "Primitive" ->
                      /\ value_allowed
                      /\ WellFormedFrom(evs, i + 1, open, FALSE, counted)
               [] evs[i].e = "StartObject" ->
                      /\ value_allowed
                      /\ WellFormedFrom(evs, i + 1, Append(open, "object"),
                                        FALSE, counted)
               [] evs[i].e = "StartArray" ->
                      /\ value_allowed
                      /\ WellFormedFrom(evs, i + 1, Append(open, "array"),
                                        FALSE, counted)
               [] evs[i].e = "EndObject" ->
                      /\ in_object
                      /\ ~pending
                      /\ WellFormedFrom(evs, i + 1, below, FALSE, roots)
               [] evs[i].e = "EndArray" ->
                      /\ depth > 0
                      /\ open[depth] = "array"
                      /\ WellFormedFrom(evs, i + 1, below, FALSE, roots)

WellFormed(evs) == WellFormedFrom(evs, 1, <<>>, FALSE, 0)

\* C17: every event sequence a successful decode_stream_sync returns is well
\* formed (Start and End events balanced and nested, every value in an
\* object preceded by exactly one Key, no Key in an array) and is accepted
\* by build_node_from_events, in strict and non-strict mode.
C17_EventsWellFormed ==
    (sync.some /\ sync.v.ok) =>
        /\ WellFormed(sync.v.v)
        /\ build_node_from_events(sync.v.v).ok

\* A non-strict decode of free lines that succeeded with a list item that
\* opens an object inside an array inside the root object.
C17_Witness ==
    /\ sync.some
    /\ sync.v.ok
    /\ doc.kind = "lines"
    /\ ~cfg.strict
    /\ \E i \in 1..Len(sync.v.v) - 1 :
        /\ sync.v.v[i].e = "StartArray"
        /\ sync.v.v[i + 1].e = "StartObject"

\* The lines of the document that the cursor of decode_stream_sync never
\* reached: the scanned (non-blank) lines from its final index on.
LinesLeft ==
    LET reached == decode_stream_state(toon, cfg).index
    IN  IF reached > Len(scan.v.v.lines) THEN <<>>
        ELSE SubSeq(scan.v.v.lines, reached, Len(scan.v.v.lines))

\* C18: in strict mode decode_stream_sync returns successfully only when
\* the cursor is exhausted: every non-blank line has been consumed, none is
\* silently ignored.
C18_CursorExhausted ==
    (sync.some /\ sync.v.ok /\ cfg.strict) => LinesLeft = <<>>

\* The number of top-level values among evs[i..]: the Primitive and Start
\* events that arrive while no container is open (depth counts the open
\* ones).
RECURSIVE RootValuesFrom(_, _, _)
RootValuesFrom(evs, i, depth) ==
    IF i > Len(evs) THEN 0
    ELSE CASE evs[i].e \in {"StartObject", "StartArray"} ->
                  (IF depth = 0 THEN 1 ELSE 0)
                  + RootValuesFrom(evs, i + 1, depth + 1)
           [] evs[i].e \in {"EndObject", "EndArray"} ->
                  RootValuesFrom(evs, i + 1, IF depth = 0 THEN 0 ELSE depth - 1)
           [] evs[i].e = "Primitive" ->
                  (IF depth = 0 THEN 1 ELSE 0)
                  + RootValuesFrom(evs, i + 1, depth)
           [] OTHER -> RootValuesFrom(evs, i + 1, depth)

RootValues(evs) == RootValuesFrom(evs, 1, 0)

\* C19: build_node_from_events succeeds only if the event sequence holds
\* exactly one root value: the empty sequence is rejected, and so is a
\* sequence with a second top-level value after the first one is complete.
C19_ExactlyOneRoot ==
    (built.some /\ built.v.ok) => RootValues(doc.events) = 1

\* Some event of evs[i..] breaks the stream protocol, or the sequence ends
\* with a container open.  frames lists the open containers, each with its
\* kind and whether it holds a key that awaits its value.
RECURSIVE MalformedFrom(_, _, _)
MalformedFrom(evs, i, frames) ==
    LET depth == Len(frames)
        below == SubSeq(frames, 1, depth - 1)
        keyless == depth > 0 /\ frames[depth].kind = "object"
                   /\ ~frames[depth].pending
        taken == IF depth > 0 THEN [frames EXCEPT ![depth].pending = FALSE]
                 ELSE frames
    IN  IF i > Len(evs) THEN depth > 0
        ELSE CASE evs[i].e = "EndObject" ->
                      \/ depth = 0
                      \/ frames[depth].kind # "object"
                      \/ MalformedFrom(evs, i + 1, below)
               [] evs[i].e = "EndArray" ->
                      \/ depth = 0
                      \/ frames[depth].kind # "array"
                      \/ MalformedFrom(evs, i + 1, below)
               [] evs[i].e = "Key" ->
                      \/ depth = 0
                      \/ frames[depth].kind # "object"
                      \/ MalformedFrom(evs, i + 1,
                             [frames EXCEPT ![depth].pending = TRUE])
               [] evs[i].e = "Primitive" ->
                      \/ keyless
                      \/ MalformedFrom(evs, i + 1, taken)
               [] evs[i].e = "StartObject" ->
                      \/ keyless
                      \/ MalformedFrom(evs, i + 1,
                             Append(taken, [kind |-> "object", pending |-> FALSE]))
               [] evs[i].e = "StartArray" ->
                      \/ keyless
                      \/ MalformedFrom(evs, i + 1,
                             Append(taken, [kind |-> "array", pending |-> FALSE]))

Malformed(evs) == MalformedFrom(evs, 1, <<>>)

\* C20: build_node_from_events returns an error and no tree when an
\* EndObject or EndArray arrives with no open frame or with an open frame of
\* the other kind, when a Key arrives while the top frame is not an Object,
\* when a value arrives in an Object frame that has no pending key, or when
\* the sequence ends with a non-empty stack.
C20_MalformedRejected ==
    (built.some /\ Malformed(doc.events)) => ~built.v.ok

\* A Start event in an object that holds no pending key, closed again and
\* the object closed after it: the builder has answered.
C20_Witness ==
    /\ built.some
    /\ ~built.v.ok
    /\ doc.events = <<StartObject, StartArray(0), EndArray, EndObject>>

\* The value an entry of a path document holds, dotted keys inside expanded.
PathValue(kind) ==
    CASE kind = "one" -> One
      [] kind = "two" -> Two
      [] kind = "array" -> Arr(<<StrP(TextX)>>)
      [] kind = "obj_b" -> Obj(<<<<KeyB, One>>>>)
      [] kind = "obj_c" -> Obj(<<<<KeyC, Two>>>>)
      [] kind = "obj_bc" -> Obj(<<<<KeyB, Obj(<<<<KeyC, Two>>>>)>>>>)

\* The entry a path stands for: the value under the nested single-key
\* objects of its segments.
RECURSIVE Nested(_, _)
Nested(path, value) ==
    IF Len(path) = 1 THEN <<path[1], value>>
    ELSE <<path[1], Obj(<<Nested(Tail(path), value)>>)>>

\* The merge policy: two objects merge entry by entry, any other pair is a
\* conflict in strict mode and gives the new value otherwise.  An entry
\* whose key is present is settled at the position of the present one, a
\* new key is appended.
RECURSIVE MergeValues(_, _, _)
RECURSIVE MergeEntriesFrom(_, _, _, _)
MergeEntriesFrom(entries, added, i, strict) ==
    IF i > Len(added) THEN Ok(entries)
    ELSE
    LET held == {j \in 1..Len(entries) : entries[j][1] = added[i][1]}
        at == CHOOSE j \in held : \A h \in held : j <= h
    IN  IF held = {}
        THEN MergeEntriesFrom(Append(entries, added[i]), added, i + 1, strict)
        ELSE Let(MergeValues(entries[at][2], added[i][2], strict),
                 LAMBDA merged :
                 IF ~merged.ok THEN merged
                 ELSE MergeEntriesFrom(
                          [entries EXCEPT ![at] = <<added[i][1], merged.v>>],
                          added, i + 1, strict))

MergeValues(old, new, strict) ==
    IF old.t = "obj" /\ new.t = "obj"
    THEN Let(MergeEntriesFrom(old.entries, new.entries, 1, strict),
             LAMBDA merged :
             IF merged.ok THEN Ok(Obj(merged.v)) ELSE merged)
    ELSE IF strict THEN Err("conflict", 0)
    ELSE Ok(new)

\* The document's entries from position i on, merged one by one into acc.
RECURSIVE ExpandedFrom(_, _, _, _)
ExpandedFrom(entries, i, acc, strict) ==
    IF i > Len(entries) \/ ~acc.ok THEN acc
    ELSE ExpandedFrom(entries, i + 1,
             MergeValues(acc.v,
                 Obj(<<Nested(IF entries[i].quoted
                              THEN <<Join(entries[i].path, DOT)>>
                              ELSE entries[i].path,
                              PathValue(entries[i].value))>>), strict),
             strict)

Expanded(d, strict) == ExpandedFrom(d.entries, 1, Ok(Obj(<<>>)), strict)

\* Some entry writes an array under a quoted key.
HasQuotedArray(d) ==
    \E i \in 1..Len(d.entries) :
        d.entries[i].quoted /\ d.entries[i].value = "array"

\* Some key is written both quoted and unquoted in the document.
HasMixedQuoting(d) ==
    \E i, j \in 1..Len(d.entries) :
        /\ d.entries[i].path = d.entries[j].path
        /\ d.entries[i].quoted
        /\ ~d.entries[j].quoted

\* C21: during path expansion an inserted key or segment that collides with
\* an existing entry is merged recursively when both sides are objects; any
\* other collision fails the decode in strict mode, and in non-strict mode
\* the new value replaces the old one at the existing entry's position.
C21_MergePolicy ==
    (decoded.some /\ doc.kind = "paths" /\ Len(doc.entries) > 0
        /\ ~HasQuotedArray(doc) /\ ~HasMixedQuoting(doc)) =>
        Let(Expanded(doc, cfg.strict), LAMBDA expected :
            /\ decoded.v.ok = expected.ok
            /\ decoded.v.ok => decoded.v.v = expected.v)

\* A non-strict decode in which the path a.b met the leaf a: the leaf was
\* replaced by the object at its position, before the entry b.
C21_Witness ==
    /\ decoded.some
    /\ decoded.v.ok
    /\ ~cfg.strict
    /\ toon = <<FieldLine(KeyA, "1"), FieldLine(KeyB, "2"),
                FieldLine(Join(<<KeyA, KeyB>>, DOT), "2")>>
    /\ decoded.v.v = Obj(<<<<KeyA, Obj(<<<<KeyB, Two>>>>)>>, <<KeyB, Two>>>>)

\* No entry of the document is expandable: every key is free of dots or is
\* a quoted dotted key, inside the nested objects too.
NothingExpandable(d) ==
    \A i \in 1..Len(d.entries) :
        /\ d.entries[i].quoted \/ Len(d.entries[i].path) = 1
        /\ d.entries[i].value # "obj_bc"

\* C30: path expansion leaves every entry that is not expandable unchanged:
\* for an input whose keys hold no dot, or only quoted dotted keys, decoding
\* with expandPaths = safe gives the same result as with expandPaths = off,
\* same entries in the same order, also when an object repeats a key.
C30_LiteralUnchanged ==
    (decoded.some /\ doc.kind = "paths" /\ NothingExpandable(doc)) =>
        decoded.v = try_decode(Join(toon, NEWLINE),
                               [cfg EXCEPT !.expand_paths = "off"])

\* The array a document of SpecShape holds, and the key it stands under.
ShapeItems == IF doc.t = "arr" THEN doc.items ELSE doc.entries[1][2].items

ShapeKey == IF doc.t = "arr" THEN <<>> ELSE doc.entries[1][1]

\* The bracket segment of a header that declares n elements.
Declares(n) ==
    ShapeKey \o <<OPEN_BRACKET>> \o NatDigits(n)
    \o (IF cfg.delimiter = COMMA THEN <<>> ELSE <<cfg.delimiter>>)
    \o <<CLOSE_BRACKET>>

\* The number of times the character c occurs in the text s.
RECURSIVE Occurrences(_, _)
Occurrences(s, c) ==
    IF Len(s) = 0 THEN 0
    ELSE (IF s[1] = c THEN 1 ELSE 0) + Occurrences(Tail(s), c)

\* The lines after the header that open a list item one level below it.
ItemLines(lines) ==
    {i \in 2..Len(lines) :
        \/ lines[i] = Spaces(2) \o LIST_ITEM_MARKER
        \/ StartsWith(lines[i], Spaces(2) \o LIST_ITEM_PREFIX)}

\* The same number of entries under every key.
SameKeys(left, right) ==
    \A k \in {left[i][1] : i \in 1..Len(left)}
             \cup {right[i][1] : i \in 1..Len(right)} :
        Cardinality({i \in 1..Len(left) : left[i][1] = k})
        = Cardinality({i \in 1..Len(right) : right[i][1] = k})

\* Every element is an object with the keys of the non-empty first one and
\* with primitive values only.
IsTabular(items) ==
    /\ Len(items) > 0
    /\ \A i \in 1..Len(items) :
        /\ items[i].t = "obj"
        /\ Len(items[1].entries) > 0
        /\ SameKeys(items[i].entries, items[1].entries)
        /\ \A j \in 1..Len(items[i].entries) :
               IsPrimitive(items[i].entries[j][2])

\* The form the priority order gives an array.
FormOf(items) ==
    IF Len(items) = 0 THEN "empty"
    ELSE IF \A i \in 1..Len(items) : IsPrimitive(items[i]) THEN "inline"
    ELSE IF \A i \in 1..Len(items) :
                /\ items[i].t = "arr"
                /\ \A j \in 1..Len(items[i].items) : IsPrimitive(items[i].items[j])
    THEN "arrays"
    ELSE IF IsTabular(items) THEN "tabular"
    ELSE "list"

\* The lines have the given form and declare and hold n elements.
HasForm(form, lines, n) ==
    LET header == lines[1]
        bare == Declares(n) \o <<COLON>>
    IN  CASE form = "empty" -> n = 0 /\ lines = <<bare>>
          [] form = "inline" ->
                /\ Len(lines) = 1
                /\ StartsWith(header, bare \o <<SPACE>>)
                /\ Occurrences(header, cfg.delimiter) + 1
                   = n + (IF cfg.delimiter = COMMA THEN 0 ELSE 1)
          [] form = "arrays" ->
                /\ header = bare
                /\ Len(lines) = n + 1
                /\ \A i \in 2..Len(lines) :
                       StartsWith(lines[i], Spaces(2) \o LIST_ITEM_PREFIX
                                            \o <<OPEN_BRACKET>>)
          [] form = "tabular" ->
                /\ StartsWith(header, Declares(n) \o <<OPEN_BRACE>>)
                /\ EndsWithChar(header, COLON)
                /\ Len(lines) = n + 1
                /\ ItemLines(lines) = {}
                /\ \A i \in 2..Len(lines) : StartsWith(lines[i], Spaces(2))
          [] form = "list" ->
                /\ header = bare
                /\ Cardinality(ItemLines(lines)) = n
                /\ \A i \in 2..Len(lines) : StartsWith(lines[i], Spaces(2))

\* Some object among the items holds two entries under one key.
RepeatsKey(items) ==
    \E i \in 1..Len(items) :
        items[i].t = "obj" /\ ~HasDistinctKeys(items[i].entries)

PrimitiveText(value) ==
    IF value.t = "str" THEN value.s ELSE NatDigits(value.mag)

\* The element's own value for the field at position j of fields: the n-th
\* field of a name stands for the element's n-th entry of that name.
OwnValue(entries, fields, j) ==
    LET nth == Cardinality({h \in 1..j : fields[h] = fields[j]})
        at == CHOOSE i \in 1..Len(entries) :
                  /\ entries[i][1] = fields[j]
                  /\ Cardinality({h \in 1..i : entries[h][1] = fields[j]}) = nth
    IN  entries[at][2]

\* The table of the items: the header with the first element's keys in
\* their order, then one row per element with its own values in that order.
TableLines(items) ==
    LET fields == [j \in 1..Len(items[1].entries) |-> items[1].entries[j][1]]
        row(i) == Spaces(2)
                  \o Join([j \in 1..Len(fields) |->
                              PrimitiveText(OwnValue(items[i].entries, fields, j))],
                          cfg.delimiter)
    IN  <<Declares(Len(items)) \o <<OPEN_BRACE>> \o Join(fields, cfg.delimiter)
          \o <<CLOSE_BRACE, COLON>>>>
        \o [i \in 1..Len(items) |-> row(i)]

\* C23: an array is encoded in tabular form exactly when it is non-empty,
\* every element is an object with the key set of the non-empty first
\* element and all values are primitive; the fields are in the first
\* element's order and each row lists that element's own values in field
\* order, objects with repeated keys included.
C23_TabularExactlyWhen ==
    (pc # "value" /\ doc \in ShapeDocs) =>
        IF IsTabular(ShapeItems) THEN toon = TableLines(ShapeItems)
        ELSE ~StartsWith(toon[1], Declares(Len(ShapeItems)) \o <<OPEN_BRACE>>)

\* The object a row of `width` values 1, 2, ... gives under the header's
\* fields: a missing value is null, a surplus value has no field.
RowObject(width) ==
    Obj([j \in 1..Len(TabularFields) |->
            <<TabularFields[j],
              IF j <= width THEN NumP(FALSE, j, 0) ELSE NullP>>])

\* C24: every object decoded from a tabular row has exactly the header's
\* field names as keys, in header order, one value per field; in non-strict
\* mode a row with fewer values gets null for the missing fields and
\* surplus values are dropped.
C24_RowObjects ==
    (decoded.some /\ decoded.v.ok /\ doc.kind = "array" /\ doc.form = "tabular")
        => \A i \in 1..Len(DecodedArray(doc, decoded.v.v)) :
               DecodedArray(doc, decoded.v.v)[i] = RowObject(doc.rows[i].width)

\* A non-strict decode of a table with a short row and a long row.
C24_Witness ==
    /\ decoded.some
    /\ decoded.v.ok
    /\ ~cfg.strict
    /\ doc.kind = "array"
    /\ doc.form = "tabular"
    /\ Len(DecodedArray(doc, decoded.v.v)) = 2
    /\ doc.rows[1].width < Len(TabularFields)
    /\ doc.rows[2].width > Len(TabularFields)

\* The lines of the stream document that are not blank.
NonBlankLines == SelectSeq(toon, NonBlank)

\* The stream has ended and the first non-blank line of the document holds
\* no colon: it is neither an array header nor a key-value line.
BareFirstLine ==
    /\ pc = "events"
    /\ Len(NonBlankLines) > 0
    /\ ~Contains(NonBlankLines[1], COLON)

\* C25: a document whose first non-blank line is neither an array header
\* nor a key-value line decodes to a single primitive only when that line
\* is the only non-blank line; when a further non-blank line follows,
\* decoding fails, in decode_stream_sync and in AsyncDecodeStream.
C25_BareValueAlone ==
    (BareFirstLine /\ Len(NonBlankLines) > 1) =>
        /\ ~sync.v.ok
        /\ \E i \in 1..Len(yielded) : ~yielded[i].ok

\* The part of C25 about decode_stream_sync alone.
C25_SyncRejects ==
    (BareFirstLine /\ Len(NonBlankLines) > 1) => ~sync.v.ok

\* C26: the events next_event returns until its first None are those of
\* encode_stream_events for the same value, in the same order; the frame
\* stack is empty then, and every later call returns None.
C26_EventStreamMatches ==
    (pc = "done" /\ doc \in Values) =>
        /\ yielded = [i \in 1..Len(emitted.v) |-> Some(emitted.v[i])]
                     \o [i \in 1..MaxIdleCalls |-> None]
        /\ stream.v.stack = <<>>

\* The stream of an object that holds an array of objects has been called
\* to its end and past it.
C26_Witness ==
    /\ pc = "done"
    /\ doc \in Mixed
    /\ doc.t = "obj"
    /\ \E i \in 1..Len(emitted.v) - 1 :
           emitted.v[i].e = "StartArray" /\ emitted.v[i + 1].e = "Primitive"
    /\ Len(yielded) = Len(emitted.v) + MaxIdleCalls

\* C27: for every finite input, polling AsyncDecodeStream repeatedly
\* eventually returns None, also when decoding the buffered lines fails,
\* and once it has returned None every later poll returns None.
C27_StreamEnds ==
    /\ <>(pc = "poll" /\ IdleCalls > 0)
    /\ [](pc = "poll" =>
            \A i, j \in 1..Len(yielded) :
                (i < j /\ ~yielded[i].some) => ~yielded[j].some)

\* Whenever the last MaxAnswers answers hold no None, the stream is in a
\* state that poll_next leaves as it is: it answers the same error for ever.
C27_OnlyLoopsReachMaxAnswers ==
    (pc = "poll" /\ Len(yielded) = MaxAnswers /\ IdleCalls = 0) =>
        Let(poll_next(stream.v, cfg), LAMBDA polled :
            /\ polled.A = stream.v
            /\ polled.item.some
            /\ ~polled.item.v.ok)

\* decode_stream_sync over the same text and indent with strict = false.
LenientSync == decode_stream_sync(toon, [cfg EXCEPT !.strict = FALSE])

\* C28: if decode_stream_sync succeeds on an input with strict = true, it
\* also succeeds on the same input and indent with strict = false and
\* returns the same event sequence.
C28_StrictOnlyRejects ==
    (sync.some /\ cfg.strict /\ sync.v.ok) => LenientSync = sync.v

\* A strict decode of a document with a tabular array and of one with list
\* items has succeeded.
C28_Witness ==
    /\ sync.some
    /\ cfg.strict
    /\ sync.v.ok
    /\ LenientSync.ok
    /\ \E i \in 1..Len(sync.v.v) :
           sync.v.v[i].e = "StartArray" /\ sync.v.v[i].length > 0

\* The walk of CountsMatch over evs[i..]: open holds, for every open
\* group, the declared length (-1 for an object) and the number of element
\* values seen in it so far.
RECURSIVE CountsMatchFrom(_, _, _)
CountsMatchFrom(evs, i, open) ==
    LET depth == Len(open)
        counted == IF depth > 0 /\ open[depth].declared >= 0
                   THEN [open EXCEPT ![depth].seen = @ + 1]
                   ELSE open
    IN  IF i > Len(evs) THEN TRUE
        ELSE CASE evs[i].e = "StartArray" ->
                      CountsMatchFrom(evs, i + 1,
                          Append(counted, [declared |-> evs[i].length,
                                           seen |-> 0]))
               [] evs[i].e = "StartObject" ->
                      CountsMatchFrom(evs, i + 1,
                          Append(counted, [declared |-> -1, seen |-> 0]))
               [] evs[i].e = "Primitive" ->
                      CountsMatchFrom(evs, i + 1, counted)
               [] evs[i].e = "EndArray" ->
                      /\ depth > 0
                      /\ open[depth].seen = open[depth].declared
                      /\ CountsMatchFrom(evs, i + 1, SubSeq(open, 1, depth - 1))
               [] evs[i].e = "EndObject" ->
                      /\ depth > 0
                      /\ CountsMatchFrom(evs, i + 1, SubSeq(open, 1, depth - 1))
               [] OTHER -> CountsMatchFrom(evs, i + 1, open)

\* Every array of evs holds as many element values as its StartArray
\* declares.
CountsMatch(evs) == CountsMatchFrom(evs, 1, <<>>)

\* C29: in strict mode, for every StartArray{length: n} in the events of a
\* successful decode, exactly n element values lie between it and its
\* matching EndArray.
C29_DeclaredLengthHolds ==
    (sync.some /\ cfg.strict /\ sync.v.ok) => CountsMatch(sync.v.v)

\* A strict decode has succeeded on a document with an array of two
\* elements that are objects.
C29_Witness ==
    /\ sync.some
    /\ cfg.strict
    /\ sync.v.ok
    /\ \E i \in 1..Len(sync.v.v) - 1 :
           /\ sync.v.v[i].e = "StartArray"
           /\ sync.v.v[i].length = 2
           /\ sync.v.v[i + 1].e = "StartObject"

====
